---- MODULE Spec2Model ----
(***************************************************************************)
(* A model of package structfill: Fill (with fillStructField,              *)
(* setDefaultValues, validateIntField, convertType) populating a target    *)
(* structure from a map[string]any.                                        *)
(*                                                                         *)
(* Go strings are TLA+ strings, taken apart character by character, so     *)
(* that strings.ToLower, fmt.Sprintf("%v"), strconv.ParseInt/ParseBool/    *)
(* ParseFloat and strings.Split are computed, not assumed.                 *)
(* Floating point values are exact decimals [num, scale] = num / 10^scale, *)
(* normalised (no trailing zero in the fraction).                          *)
(***************************************************************************)
EXTENDS Integers, Sequences, FiniteSets, TLC

(***************************************************************************)
(* Bounds of the model.                                                    *)
(***************************************************************************)
\* number of Fill calls a behaviour makes on one target
MaxCalls == 2
\* longest input sequence supplied for a slice field
MaxElems == 2

(***************************************************************************)
(* Characters and strings.                                                 *)
(***************************************************************************)
\* the i-th character of a string, as a one-character string
Ch(s, i) == SubSeq(s, i, i)

Digits == "0123456789"
Upper == "ABCDEFGHIJKLMNOPQRSTUVWXYZ"
Lower == "abcdefghijklmnopqrstuvwxyz"

IsDigit(c) == \E i \in 1..Len(Digits) : Ch(Digits, i) = c
DigitVal(c) == (CHOOSE i \in 1..Len(Digits) : Ch(Digits, i) = c) - 1
DigitChar(d) == Ch(Digits, d + 1)

\* unicode.ToLower on the ASCII letters
ToLowerChar(c) ==
    IF \E i \in 1..Len(Upper) : Ch(Upper, i) = c
    THEN Ch(Lower, CHOOSE i \in 1..Len(Upper) : Ch(Upper, i) = c)
    ELSE c

\* strings.ToLower
RECURSIVE ToLower(_)
ToLower(s) ==
    IF Len(s) = 0 THEN ""
    ELSE ToLowerChar(Ch(s, 1)) \o ToLower(SubSeq(s, 2, Len(s)))

\* strings.Index(s, sep) for a one-character sep, counted from 1; 0 when absent
IndexOf(s, c) ==
    IF \E i \in 1..Len(s) : Ch(s, i) = c
    THEN CHOOSE i \in 1..Len(s) : Ch(s, i) = c /\ \A j \in 1..(i - 1) : Ch(s, j) # c
    ELSE 0

\* strings.Split(s, sep) for a one-character sep
RECURSIVE Split(_, _)
Split(s, c) ==
    LET i == IndexOf(s, c)
    IN  IF i = 0 THEN <<s>>
        ELSE <<SubSeq(s, 1, i - 1)>> \o Split(SubSeq(s, i + 1, Len(s)), c)

\* strings.SplitN(s, sep, 2) for a one-character sep
SplitN2(s, c) ==
    LET i == IndexOf(s, c)
    IN  IF i = 0 THEN <<s>>
        ELSE <<SubSeq(s, 1, i - 1), SubSeq(s, i + 1, Len(s))>>

RECURSIVE Pow10(_)
Pow10(n) == IF n = 0 THEN 1 ELSE 10 * Pow10(n - 1)

\* the decimal digits of a natural number
RECURSIVE NatDigits(_)
NatDigits(n) ==
    IF n < 10 THEN DigitChar(n)
    ELSE NatDigits(n \div 10) \o DigitChar(n % 10)

\* strconv.FormatInt(n, 10)
FormatInt(n) == IF n < 0 THEN "-" \o NatDigits(-n) ELSE NatDigits(n)

\* the value of a digit string
RECURSIVE DigitsVal(_)
DigitsVal(s) ==
    IF Len(s) = 0 THEN 0
    ELSE DigitsVal(SubSeq(s, 1, Len(s) - 1)) * 10 + DigitVal(Ch(s, Len(s)))

AllDigits(s) == Len(s) > 0 /\ \A i \in 1..Len(s) : IsDigit(Ch(s, i))

\* the range of a signed integer of the given width; the model's integers
\* lie inside every width of 32 bits and more
IntMin(bits) == IF bits = 8 THEN -128 ELSE IF bits = 16 THEN -32768 ELSE -2000000000
IntMax(bits) == IF bits = 8 THEN 127 ELSE IF bits = 16 THEN 32767 ELSE 2000000000

\* strconv.ParseInt(s, 10, bits): optional sign, then decimal digits, and the
\* value must fit the width
ParseInt(s, bits) ==
    LET neg  == Len(s) > 0 /\ Ch(s, 1) = "-"
        sgn  == Len(s) > 0 /\ (Ch(s, 1) = "-" \/ Ch(s, 1) = "+")
        body == IF sgn THEN SubSeq(s, 2, Len(s)) ELSE s
    IN  IF ~AllDigits(body) THEN [ok |-> FALSE, why |-> "syntax", v |-> 0]
        ELSE LET n == IF neg THEN -DigitsVal(body) ELSE DigitsVal(body)
             IN  IF n < IntMin(bits) \/ n > IntMax(bits)
                 THEN [ok |-> FALSE, why |-> "range", v |-> 0]
                 ELSE [ok |-> TRUE, why |-> "", v |-> n]

\* strconv.ParseBool
ParseBool(s) ==
    IF s \in {"1", "t", "T", "TRUE", "true", "True"}
    THEN [ok |-> TRUE, v |-> TRUE]
    ELSE IF s \in {"0", "f", "F", "FALSE", "false", "False"}
    THEN [ok |-> TRUE, v |-> FALSE]
    ELSE [ok |-> FALSE, v |-> FALSE]

\* a decimal num / 10^scale without trailing zeros in its fraction
RECURSIVE Norm(_, _)
Norm(num, scale) ==
    IF scale > 0 /\ num % 10 = 0 THEN Norm(num \div 10, scale - 1)
    ELSE [num |-> num, scale |-> scale]

\* strconv.ParseFloat on decimal literals: [sign] digits [. digits]
\* [e|E [sign] digits], with a digit on at least one side of the point.  The
\* hexadecimal, infinity and NaN forms and underscores are outside the
\* strings the model supplies, and so are values beyond the model's integers.
ExponentIndex(s) == IF IndexOf(s, "e") # 0 THEN IndexOf(s, "e") ELSE IndexOf(s, "E")

ParseFloat(s) ==
    LET neg  == Len(s) > 0 /\ Ch(s, 1) = "-"
        sgn  == Len(s) > 0 /\ (Ch(s, 1) = "-" \/ Ch(s, 1) = "+")
        body == IF sgn THEN SubSeq(s, 2, Len(s)) ELSE s
        e    == ExponentIndex(body)
        mant == IF e = 0 THEN body ELSE SubSeq(body, 1, e - 1)
        ex   == IF e = 0 THEN [ok |-> TRUE, why |-> "", v |-> 0]
                ELSE ParseInt(SubSeq(body, e + 1, Len(body)), 64)
        p    == IndexOf(mant, ".")
        ip   == IF p = 0 THEN mant ELSE SubSeq(mant, 1, p - 1)
        fp   == IF p = 0 THEN "" ELSE SubSeq(mant, p + 1, Len(mant))
        good == /\ Len(ip) + Len(fp) > 0
                /\ \A i \in 1..Len(ip) : IsDigit(Ch(ip, i))
                /\ \A i \in 1..Len(fp) : IsDigit(Ch(fp, i))
                /\ ex.ok
        mag  == DigitsVal(ip) * Pow10(Len(fp)) + DigitsVal(fp)
        num  == IF neg THEN -mag ELSE mag
    IN  IF ~good THEN [ok |-> FALSE, v |-> [num |-> 0, scale |-> 0]]
        ELSE IF Len(fp) >= ex.v THEN [ok |-> TRUE, v |-> Norm(num, Len(fp) - ex.v)]
        ELSE [ok |-> TRUE, v |-> [num |-> num * Pow10(ex.v - Len(fp)), scale |-> 0]]

\* a digit string left-padded with zeros to n digits
RECURSIVE PadLeft(_, _)
PadLeft(s, n) == IF Len(s) >= n THEN s ELSE PadLeft("0" \o s, n)

\* the integer part only
FormatFloatWhole(d) ==
    (IF d.num < 0 THEN "-" ELSE "") \o
        NatDigits((IF d.num < 0 THEN -d.num ELSE d.num) \div Pow10(d.scale))

\* a digit string without its trailing zeros
RECURSIVE StripZeros(_)
StripZeros(s) ==
    IF Len(s) > 1 /\ Ch(s, Len(s)) = "0" THEN StripZeros(SubSeq(s, 1, Len(s) - 1)) ELSE s

Abs(n) == IF n < 0 THEN -n ELSE n

\* the decimal exponent of a non-zero value: that of its first digit
FloatExp(d) == Len(NatDigits(Abs(d.num))) - d.scale - 1

\* strconv's %e with the shortest digits: d[.ddd]e(+|-)dd
FormatFloatE(d) ==
    (IF d.num < 0 THEN "-" ELSE "")
        \o Ch(StripZeros(NatDigits(Abs(d.num))), 1)
        \o (IF Len(StripZeros(NatDigits(Abs(d.num)))) > 1
            THEN "." \o SubSeq(StripZeros(NatDigits(Abs(d.num))), 2,
                               Len(StripZeros(NatDigits(Abs(d.num)))))
            ELSE "")
        \o "e" \o (IF FloatExp(d) < 0 THEN "-" ELSE "+")
        \o PadLeft(NatDigits(Abs(FloatExp(d))), 2)

\* strconv's %f with the shortest digits
FormatFloatF(d) ==
    LET mag  == Abs(d.num)
        ip   == NatDigits(mag \div Pow10(d.scale))
        fp   == PadLeft(NatDigits(mag % Pow10(d.scale)), d.scale)
        sign == IF d.num < 0 THEN "-" ELSE ""
    IN  IF d.scale = 0 THEN sign \o ip ELSE sign \o ip \o "." \o fp

\* fmt's %v of a float64, strconv.FormatFloat(x, 'g', -1, 64): the shortest
\* digits, in the %e form when the decimal exponent is below -4 or at least
\* 6 and in the %f form otherwise
FormatFloat(d) ==
    IF d.num = 0 THEN "0"
    ELSE IF FloatExp(d) < -4 \/ FloatExp(d) >= 6 THEN FormatFloatE(d)
    ELSE FormatFloatF(d)

(***************************************************************************)
(* Declared shapes (reflect.Type) and field descriptors                    *)
(* (reflect.StructField).  A struct tag is the pair of its "default" and   *)
(* "validate" values; tag.Get returns "" for a key the tag lacks.          *)
(***************************************************************************)
TString == [kind |-> "string"]
TBool == [kind |-> "bool"]
TInt(bits) == [kind |-> "int", bits |-> bits]
TFloat(bits) == [kind |-> "float", bits |-> bits]
TStruct(name, fields) == [kind |-> "struct", name |-> name, fields |-> fields]
TSlice(elem) == [kind |-> "slice", elem |-> elem]
TMap(key, elem) == [kind |-> "map", key |-> key, elem |-> elem]
\* an interface type: methods names its methods, valueImpl the struct types
\* whose value type (not only their pointer type) has them; the empty
\* interface is implemented by every type
TIface(name, methods, valueImpl) ==
    [kind |-> "interface", name |-> name, methods |-> methods,
     empty |-> methods = {}, valueImpl |-> valueImpl]

Field(name, type, default, validate) ==
    [name |-> name, type |-> type, anonymous |-> FALSE, exported |-> TRUE,
     default |-> default, validate |-> validate]
Embedded(name, type) ==
    [name |-> name, type |-> type, anonymous |-> TRUE, exported |-> TRUE,
     default |-> "", validate |-> ""]
Unexported(name, type, default) ==
    [name |-> name, type |-> type, anonymous |-> FALSE, exported |-> FALSE,
     default |-> default, validate |-> ""]

NoDec == [num |-> 0, scale |-> 0]

\* the zero value of a declared shape; a struct value is the sequence of its
\* field values in declaration order, and an interface value that holds
\* something carries its dynamic type as well: [dyn, t, ptr, v]
RECURSIVE Zero(_)
Zero(t) ==
    CASE t.kind = "string" -> ""
      [] t.kind = "int" -> 0
      [] t.kind = "bool" -> FALSE
      [] t.kind = "float" -> NoDec
      [] t.kind = "struct" -> [i \in 1..Len(t.fields) |-> Zero(t.fields[i].type)]
      [] t.kind = "slice" -> [isnil |-> TRUE, e |-> <<>>]
      [] t.kind = "map" -> [isnil |-> TRUE, m |-> <<>>]
      [] t.kind = "interface" -> [dyn |-> "nil", ptr |-> FALSE, v |-> <<>>]

(***************************************************************************)
(* Dynamically typed input values (any).  The tag k sorts before the       *)
(* payload fields.  A map value is map[string]X and a slice value is []X,  *)
(* where et names X: "any", "map" (map[string]any), "string", "int",       *)
(* "bool", "float", or "declared" for any other type X, then given by the  *)
(* field t.  Each Go type has one encoding: VMapOf and VSliceOf give a     *)
(* map[string]any, a []map[string]any or a map or slice of scalars the     *)
(* named encoding, so that a type assertion or a Kind test on the value    *)
(* sees the type however the value was built.  A struct value carries its declared type and its field values *)
(* in declaration order.  A Go map is a sequence of <<key, value>> pairs   *)
(* with distinct keys; fmt prints it in the order of its keys and no other *)
(* operation of the package depends on the order.  Go's int and int64 are  *)
(* one shape, TInt(64).                                                    *)
(***************************************************************************)
VNil == [k |-> "nil"]
VString(s) == [k |-> "string", v |-> s]
VInt(n) == [k |-> "int", v |-> n]
VBool(b) == [k |-> "bool", v |-> b]
VFloat(num, scale) == [k |-> "float", v |-> Norm(num, scale)]
VMap(et, pairs) == [k |-> "map", et |-> et, v |-> pairs]
VSlice(et, elems) == [k |-> "slice", et |-> et, v |-> elems]
\* the name of element type t in the encoding
EtOf(t) ==
    CASE t = TIface("any", {}, {}) -> "any"
      [] t = TMap(TString, TIface("any", {}, {})) -> "map"
      [] t = TString -> "string"
      [] t = TInt(64) -> "int"
      [] t = TBool -> "bool"
      [] t = TFloat(64) -> "float"
      [] OTHER -> "declared"
VMapOf(t, pairs) ==
    IF EtOf(t) = "declared" THEN [k |-> "map", et |-> "declared", t |-> t, v |-> pairs]
    ELSE VMap(EtOf(t), pairs)
VSliceOf(t, elems) ==
    IF EtOf(t) = "declared" THEN [k |-> "slice", et |-> "declared", t |-> t, v |-> elems]
    ELSE VSlice(EtOf(t), elems)
VStruct(t, fields) == [k |-> "struct", t |-> t, v |-> fields]

\* the type X of the elements of a map or slice value
ElemType(x) ==
    CASE x.et = "declared" -> x.t
      [] x.et = "any" -> TIface("any", {}, {})
      [] x.et = "map" -> TMap(TString, TIface("any", {}, {}))
      [] x.et = "string" -> TString
      [] x.et = "int" -> TInt(64)
      [] x.et = "bool" -> TBool
      [] x.et = "float" -> TFloat(64)

\* reflect.TypeOf(x) for a value that is not nil
TypeOfValue(x) ==
    CASE x.k = "string" -> TString
      [] x.k = "int" -> TInt(64)
      [] x.k = "bool" -> TBool
      [] x.k = "float" -> TFloat(64)
      [] x.k = "map" -> TMap(TString, ElemType(x))
      [] x.k = "slice" -> TSlice(ElemType(x))
      [] x.k = "struct" -> x.t

\* m[key] of a Go map: the value and whether the key is present
HasKey(m, key) == \E i \in 1..Len(m) : m[i][1] = key
Lookup(m, key) == m[CHOOSE i \in 1..Len(m) : m[i][1] = key][2]

\* the code point of a character of the model's alphabet
Punctuation == " -._"
Code(c) ==
    IF IndexOf(Digits, c) # 0 THEN 47 + IndexOf(Digits, c)
    ELSE IF IndexOf(Upper, c) # 0 THEN 64 + IndexOf(Upper, c)
    ELSE IF IndexOf(Lower, c) # 0 THEN 96 + IndexOf(Lower, c)
    ELSE <<32, 45, 46, 95>>[IndexOf(Punctuation, c)]

\* a < b for Go strings: byte by byte
RECURSIVE StrLess(_, _)
StrLess(a, b) ==
    IF Len(b) = 0 THEN FALSE
    ELSE IF Len(a) = 0 THEN TRUE
    ELSE IF Ch(a, 1) = Ch(b, 1)
    THEN StrLess(SubSeq(a, 2, Len(a)), SubSeq(b, 2, Len(b)))
    ELSE Code(Ch(a, 1)) < Code(Ch(b, 1))

\* the entries of a map in the order of their keys (internal/fmtsort)
RECURSIVE InsertPair(_, _)
InsertPair(p, sorted) ==
    IF Len(sorted) = 0 THEN <<p>>
    ELSE IF StrLess(p[1], sorted[1][1]) THEN <<p>> \o sorted
    ELSE <<sorted[1]>> \o InsertPair(p, Tail(sorted))
RECURSIVE SortPairs(_)
SortPairs(m) == IF Len(m) = 0 THEN <<>> ELSE InsertPair(m[1], SortPairs(Tail(m)))

\* fmt.Sprintf("%v", v) for a value of a declared shape (a struct value, or
\* what a struct value holds): {f1 f2}, [e1 e2], map[k1:v1 k2:v2], <nil> for
\* an interface holding nothing
RECURSIVE FormatField(_, _)
RECURSIVE FormatFields(_, _, _)
RECURSIVE FormatFieldElems(_, _, _)
RECURSIVE FormatFieldPairs(_, _, _)
FormatField(v, t) ==
    CASE t.kind = "string" -> v
      [] t.kind = "int" -> FormatInt(v)
      [] t.kind = "bool" -> IF v THEN "true" ELSE "false"
      [] t.kind = "float" -> FormatFloat(v)
      [] t.kind = "struct" -> "{" \o FormatFields(v, t, 1) \o "}"
      [] t.kind = "slice" -> "[" \o FormatFieldElems(v.e, t.elem, 1) \o "]"
      [] t.kind = "map" -> "map[" \o FormatFieldPairs(SortPairs(v.m), t.elem, 1) \o "]"
      [] t.kind = "interface" ->
             IF v.dyn = "nil" THEN "<nil>" ELSE FormatField(v.v, v.t)
FormatFields(v, t, i) ==
    IF i > Len(v) THEN ""
    ELSE (IF i > 1 THEN " " ELSE "") \o FormatField(v[i], t.fields[i].type)
             \o FormatFields(v, t, i + 1)
FormatFieldElems(e, t, j) ==
    IF j > Len(e) THEN ""
    ELSE (IF j > 1 THEN " " ELSE "") \o FormatField(e[j], t) \o FormatFieldElems(e, t, j + 1)
FormatFieldPairs(m, t, i) ==
    IF i > Len(m) THEN ""
    ELSE (IF i > 1 THEN " " ELSE "") \o m[i][1] \o ":" \o FormatField(m[i][2], t)
             \o FormatFieldPairs(m, t, i + 1)

\* fmt.Sprintf("%v", x) of an input value
RECURSIVE FormatV(_)
RECURSIVE FormatElems(_, _)
RECURSIVE FormatPairs(_, _)
FormatV(x) ==
    CASE x.k = "nil" -> "<nil>"
      [] x.k = "string" -> x.v
      [] x.k = "int" -> FormatInt(x.v)
      [] x.k = "bool" -> IF x.v THEN "true" ELSE "false"
      [] x.k = "float" -> FormatFloat(x.v)
      [] x.k = "map" -> "map[" \o FormatPairs(SortPairs(x.v), 1) \o "]"
      [] x.k = "slice" -> "[" \o FormatElems(x.v, 1) \o "]"
      [] x.k = "struct" -> FormatField(x.v, x.t)
FormatElems(e, j) ==
    IF j > Len(e) THEN ""
    ELSE (IF j > 1 THEN " " ELSE "") \o FormatV(e[j]) \o FormatElems(e, j + 1)
FormatPairs(m, i) ==
    IF i > Len(m) THEN ""
    ELSE (IF i > 1 THEN " " ELSE "") \o m[i][1] \o ":" \o FormatV(m[i][2])
             \o FormatPairs(m, i + 1)

(***************************************************************************)
(* Errors and results.  An error carries what its message names: the rule, *)
(* the offending value and the bound for a validation error.  A result is  *)
(* how a call ended (st: "ok", "err" or "panic"), the error, the value the *)
(* target holds on return (the target is mutated in place, so what was     *)
(* written before a failure stays), the field writes in order, and the     *)
(* depth of nested Fill calls.                                             *)
(***************************************************************************)
NoErr == [kind |-> "nil", rule |-> "", value |-> 0, bound |-> 0]
Err(kind) == [kind |-> kind, rule |-> "", value |-> 0, bound |-> 0]
BoundErr(rule, value, bound) ==
    [kind |-> "ValidationBound", rule |-> rule, value |-> value, bound |-> bound]

Res(st, err, val, w, d) == [st |-> st, err |-> err, val |-> val, w |-> w, d |-> d]
Done(val, w, d) == Res("ok", NoErr, val, w, d)
Fail(kind, val, w, d) == Res("err", Err(kind), val, w, d)
Panic(val, w, d) == Res("panic", Err("panic"), val, w, d)

\* line 19: the text of the error for a target of the wrong shape
NotAPointerMessage == "provided type must be a pointer to a struct"

\* lines 250 and 254: the text of a bound violation
BoundMessage(err) ==
    IF err.rule = "min"
    THEN "value " \o FormatInt(err.value) \o " is less than min " \o FormatInt(err.bound)
    ELSE "value " \o FormatInt(err.value) \o " is greater than max " \o FormatInt(err.bound)

\* error.Error(), for the errors whose text names no field
Message(err) ==
    CASE err.kind = "NotAPointerToStruct" -> NotAPointerMessage
      [] err.kind = "ValidationBound" -> BoundMessage(err)

\* one field write: the path of the field from the root and what drove it
Wr(path, by) == [path |-> path, by |-> by]

Max(a, b) == IF a >= b THEN a ELSE b

\* reflect.Value.SetInt on a field of the given width: the value is truncated
WrapInt(n, bits) ==
    IF bits = 8 THEN ((n + 128) % 256) - 128
    ELSE IF bits = 16 THEN ((n + 32768) % 65536) - 32768
    ELSE n

(***************************************************************************)
(* validateIntField                                                        *)
(***************************************************************************)
RECURSIVE validateRules(_, _, _)
validateRules(rules, i, value) ==
    IF i > Len(rules) THEN NoErr
    ELSE LET ruleParts == SplitN2(rules[i], "=")
         IN  IF Len(ruleParts) # 2 THEN Err("InvalidValidateTag")
             ELSE LET ruleValue == ParseInt(ruleParts[2], 64)
                  IN  IF ~ruleValue.ok THEN Err("InvalidRuleValue")
                      ELSE IF ruleParts[1] = "min"
                      THEN IF value < ruleValue.v
                           THEN BoundErr("min", value, ruleValue.v)
                           ELSE validateRules(rules, i + 1, value)
                      ELSE IF ruleParts[1] = "max"
                      THEN IF value > ruleValue.v
                           THEN BoundErr("max", value, ruleValue.v)
                           ELSE validateRules(rules, i + 1, value)
                      ELSE Err("UnsupportedRule")

validateIntField(validateTag, value) ==
    IF validateTag = "" THEN NoErr
    ELSE validateRules(Split(validateTag, ","), 1, value)

(***************************************************************************)
(* setDefaultValues: returns the field's new value and the writes made     *)
(***************************************************************************)
RECURSIVE setDefaultValues(_, _, _, _)
RECURSIVE setDefaultFields(_, _, _, _)

NoWrite(fv) == [val |-> fv, w |-> <<>>]
DefaultWrite(v, path) == [val |-> v, w |-> <<Wr(path, "default")>>]

\* the writes of one nested field, then those of the fields after it
defaultsThen(w, rest) == [val |-> rest.val, w |-> w \o rest.w]
defaultsAfter(sv, t, i, path, one) ==
    defaultsThen(one.w, setDefaultFields([sv EXCEPT ![i] = one.val], t, i + 1, path))

\* lines 291-297: the loop over the fields of a nested struct
setDefaultFields(sv, t, i, path) ==
    IF i > Len(t.fields) THEN NoWrite(sv)
    ELSE IF ~t.fields[i].exported THEN setDefaultFields(sv, t, i + 1, path)
    ELSE defaultsAfter(sv, t, i, path,
             setDefaultValues(sv[i], t.fields[i].type, t.fields[i].default,
                              path \o <<i>>))

\* lines 270-274
defaultInt(fv, t, intVal, path) ==
    IF intVal.ok THEN DefaultWrite(WrapInt(intVal.v, t.bits), path) ELSE NoWrite(fv)

\* lines 275-284
defaultParsed(fv, parsed, path) ==
    IF parsed.ok THEN DefaultWrite(parsed.v, path) ELSE NoWrite(fv)

\* defaults without the descent into nested structures
setDefaultValuesFlat(fv, t, defaultVal, path) ==
    IF defaultVal # ""
    THEN CASE t.kind = "string" -> DefaultWrite(defaultVal, path)
           [] t.kind = "int" -> defaultInt(fv, t, ParseInt(defaultVal, 64), path)
           [] t.kind = "bool" -> defaultParsed(fv, ParseBool(defaultVal), path)
           [] t.kind = "float" -> defaultParsed(fv, ParseFloat(defaultVal), path)
           [] OTHER -> NoWrite(fv)
    ELSE NoWrite(fv)

\* lines 263-299
setDefaultValues(fv, t, defaultVal, path) ==
    IF defaultVal # ""
    THEN CASE t.kind = "string" -> DefaultWrite(defaultVal, path)
           [] t.kind = "int" -> defaultInt(fv, t, ParseInt(defaultVal, 64), path)
           [] t.kind = "bool" -> defaultParsed(fv, ParseBool(defaultVal), path)
           [] t.kind = "float" -> defaultParsed(fv, ParseFloat(defaultVal), path)
           [] OTHER -> NoWrite(fv)
    ELSE IF t.kind = "struct" THEN setDefaultFields(fv, t, 1, path)
    ELSE NoWrite(fv)

(***************************************************************************)
(* convertType and reflect's Convert                                       *)
(***************************************************************************)
\* string(rune(n)) on the code points of the ASCII digits and letters; other
\* code points are outside the model's alphabet
RuneString(n) ==
    IF n >= 48 /\ n <= 57 THEN Ch(Digits, n - 47)
    ELSE IF n >= 65 /\ n <= 90 THEN Ch(Upper, n - 64)
    ELSE IF n >= 97 /\ n <= 122 THEN Ch(Lower, n - 96)
    ELSE "?"

\* float to integer conversion truncates toward zero
TruncDec(d) ==
    IF d.num >= 0 THEN d.num \div Pow10(d.scale)
    ELSE -((-d.num) \div Pow10(d.scale))

\* the name of a defined type, "" for a type literal
TypeName(t) == IF t.kind \in {"struct", "interface"} THEN t.name ELSE ""

\* reflect's haveIdenticalType and haveIdenticalUnderlyingType as a conversion
\* uses them, struct tags ignored: the fields of two structs agree in name,
\* in being embedded and in type, field types agreeing in name as well; two
\* interface types are the same type or both without methods
RECURSIVE haveIdenticalUnderlyingType(_, _)
haveIdenticalType(T, V) == TypeName(T) = TypeName(V) /\ haveIdenticalUnderlyingType(T, V)
haveIdenticalUnderlyingType(T, V) ==
    /\ T.kind = V.kind
    /\ CASE T.kind = "slice" -> haveIdenticalType(T.elem, V.elem)
         [] T.kind = "map" ->
                haveIdenticalType(T.key, V.key) /\ haveIdenticalType(T.elem, V.elem)
         [] T.kind = "struct" ->
                /\ Len(T.fields) = Len(V.fields)
                /\ \A i \in 1..Len(T.fields) :
                       /\ T.fields[i].name = V.fields[i].name
                       /\ T.fields[i].anonymous = V.fields[i].anonymous
                       /\ haveIdenticalType(T.fields[i].type, V.fields[i].type)
         [] T.kind = "interface" -> T = V \/ (T.empty /\ V.empty)
         [] OTHER -> T = V

\* reflect's implements: type V has the methods of interface type T
implements(T, V) ==
    /\ T.kind = "interface"
    /\ \/ T.empty
       \/ V.kind = "struct" /\ V.name \in T.valueImpl
       \/ V.kind = "interface" /\ T.methods \subseteq V.methods

\* reflect.Type.ConvertibleTo from type src to type dst (convertOp finds a
\* conversion): the numeric kinds convert among themselves and an integer
\* to a string, a type to one of identical underlying type, and a type to
\* an interface it implements.  The conversions between a string and a
\* slice of bytes or runes, and from a slice to an array, are outside the
\* shapes the model declares.
TypeConvertibleTo(src, dst) ==
    \/ src.kind = "int" /\ dst.kind \in {"int", "float", "string"}
    \/ src.kind = "float" /\ dst.kind \in {"int", "float"}
    \/ haveIdenticalUnderlyingType(dst, src)
    \/ implements(dst, src)

\* val.Type().ConvertibleTo(t) for a value x that is not nil
ConvertibleTo(x, t) == TypeConvertibleTo(TypeOfValue(x), t)

\* a value of shape t from an input value of the identical type
RECURSIVE Identical(_, _)
Identical(x, t) ==
    CASE t.kind = "slice" ->
             [isnil |-> FALSE, e |-> [j \in 1..Len(x.v) |-> Identical(x.v[j], t.elem)]]
      [] t.kind = "map" ->
             [isnil |-> FALSE,
              m |-> [i \in 1..Len(x.v) |-> <<x.v[i][1], Identical(x.v[i][2], t.elem)>>]]
      [] t.kind = "interface" ->
             IF x.k = "nil" THEN Zero(t)
             ELSE [dyn |-> IF x.k = "struct" THEN x.t.name ELSE x.k, t |-> TypeOfValue(x),
                   ptr |-> FALSE, v |-> Identical(x, TypeOfValue(x))]
      [] OTHER -> x.v

\* reflect.Value.Convert, where ConvertibleTo holds
Convert(x, t) ==
    CASE t.kind = "interface" -> Identical(x, t)
      [] t.kind = "string" -> IF x.k = "int" THEN RuneString(x.v) ELSE x.v
      [] t.kind = "int" -> IF x.k = "float" THEN WrapInt(TruncDec(x.v), t.bits)
                           ELSE WrapInt(x.v, t.bits)
      [] t.kind = "float" -> IF x.k = "int" THEN [num |-> x.v, scale |-> 0] ELSE x.v
      [] t.kind = "bool" -> x.v
      [] t.kind \in {"slice", "map", "struct"} -> Identical(x, t)

\* convertType: reflect.ValueOf(nil) is the zero Value, whose Type() panics
convertType(value, targetType) ==
    IF value.k = "nil" THEN [st |-> "panic", v |-> Zero(targetType)]
    ELSE IF ConvertibleTo(value, targetType)
    THEN [st |-> "ok", v |-> Convert(value, targetType)]
    ELSE [st |-> "err", v |-> Zero(targetType)]

(***************************************************************************)
(* Fill and fillStructField.  A target reference (the structType argument) *)
(* is [ptr, t, v]: whether it is a pointer, the shape it points to (or     *)
(* has) and the value there.  The type registry is a Go map from the type  *)
(* identifier to what its factory returns, [ptr, t].                       *)
(***************************************************************************)
Ref(ptr, t, v) == [ptr |-> ptr, t |-> t, v |-> v]

RECURSIVE Fill(_, _, _, _)
RECURSIVE fillFields(_, _, _, _, _, _)
RECURSIVE interfaceElems(_, _, _, _, _, _, _, _)
RECURSIVE sliceElems(_, _, _, _, _, _, _, _)

\* a field set by setDefaultValues, which returns no error
defaulted(dv) == Done(dv.val, dv.w, 0)

\* lines 53-69: a nested, non-embedded struct field
fillNestedStruct(fv, f, ok, inputValue, reg, path) ==
    IF ok
    THEN IF ~(inputValue.k = "map" /\ inputValue.et = "any")
         THEN Fail("InvalidNestedInput", fv, <<>>, 0)
         ELSE Fill(Ref(TRUE, f.type, fv), inputValue.v, reg, path)
    ELSE defaulted(setDefaultValues(fv, f.type, f.default, path))

\* lines 78-81
fillString(fv, inputValue, path) ==
    IF inputValue.k = "string"
    THEN Done(inputValue.v, <<Wr(path, "input")>>, 0)
    ELSE Done(fv, <<>>, 0)

\* the assignment made before the validation, and kept when it fails
validatedIntWritten(fv, f, intVal, verr, path) ==
    Res(IF verr.kind # "nil" THEN "err" ELSE "ok", verr,
        WrapInt(intVal, f.type.bits), <<Wr(path, "input")>>, 0)

\* the assignment without the validation
validatedIntUnchecked(fv, f, intVal, verr, path) ==
    Done(WrapInt(intVal, f.type.bits), <<Wr(path, "input")>>, 0)

\* lines 87-90: validation, then the assignment
validatedInt(fv, f, intVal, verr, path) ==
    IF verr.kind # "nil" THEN Res("err", verr, fv, <<>>, 0)
    ELSE Done(WrapInt(intVal, f.type.bits), <<Wr(path, "input")>>, 0)

\* lines 83-90
parsedInt(fv, f, intVal, path) ==
    IF ~intVal.ok THEN Fail("ConversionError", fv, <<>>, 0)
    ELSE validatedInt(fv, f, intVal.v, validateIntField(f.validate, intVal.v), path)

\* lines 82-90
fillInt(fv, f, inputValue, path) ==
    parsedInt(fv, f, ParseInt(FormatV(inputValue), f.type.bits), path)

\* lines 93-96 and 99-102
parsedScalar(fv, parsed, path) ==
    IF ~parsed.ok THEN Fail("ConversionError", fv, <<>>, 0)
    ELSE Done(parsed.v, <<Wr(path, "input")>>, 0)

\* lines 91-96
fillBool(fv, inputValue, path) == parsedScalar(fv, ParseBool(FormatV(inputValue)), path)

\* lines 97-102
fillFloat(fv, inputValue, path) == parsedScalar(fv, ParseFloat(FormatV(inputValue)), path)

\* line 138: slice.Index(j).Set(reflect.ValueOf(newInstance).Elem()) stores
\* the struct the factory's pointer points to; reflect panics unless that
\* struct type is assignable to the slice's interface type
Assignable(structType, ifaceType) ==
    ifaceType.empty \/ structType.name \in ifaceType.valueImpl

\* line 114: the element is a map[string]any
IsStringAnyMap(e) == e.k = "map" /\ e.et = "any"

\* line 119: elemMap["type"].(string)
HasTypeIdentifier(elemMap) ==
    HasKey(elemMap, "type") /\ Lookup(elemMap, "type").k = "string"
TypeIdentifier(elemMap) == Lookup(elemMap, "type").v

\* line 127: what the factory returns, a fresh instance
NewInstance(fac) == Ref(fac.ptr, fac.t, Zero(fac.t))

\* lines 129-138: after the recursive Fill of element j (result r)
interfaceElemFilled(slice, sliceType, input, j, reg, path, w, d, fac, r) ==
    IF r.st # "ok" THEN Res(r.st, r.err, slice, w \o r.w, Max(d, r.d))
    ELSE IF ~Assignable(fac.t, sliceType) THEN Panic(slice, w \o r.w, Max(d, r.d))
    ELSE interfaceElems(
             [slice EXCEPT ![j] = [dyn |-> fac.t.name, t |-> fac.t, ptr |-> FALSE,
                                   v |-> r.val]],
             sliceType, input, j + 1, reg, path, w \o r.w, Max(d, r.d))

\* lines 113-139: the loop over the elements of a polymorphic slice
interfaceElems(slice, sliceType, input, j, reg, path, w, d) ==
    IF j > Len(input.v) THEN Done(slice, w, d)
    ELSE IF ~IsStringAnyMap(input.v[j]) THEN Fail("ExpectedMapElement", slice, w, d)
    ELSE IF ~HasTypeIdentifier(input.v[j].v)
    THEN Fail("MissingTypeIdentifier", slice, w, d)
    ELSE IF ~HasKey(reg, TypeIdentifier(input.v[j].v))
    THEN Fail("UnknownTypeIdentifier", slice, w, d)
    ELSE interfaceElemFilled(slice, sliceType, input, j, reg, path, w, d,
             Lookup(reg, TypeIdentifier(input.v[j].v)),
             Fill(NewInstance(Lookup(reg, TypeIdentifier(input.v[j].v))),
                  input.v[j].v, reg, path \o <<j>>))

\* lines 150-153: after the recursive Fill of struct element j (result r)
structElemFilled(slice, sliceType, input, j, reg, path, w, d, r) ==
    IF r.st # "ok" THEN Res(r.st, r.err, slice, w \o r.w, Max(d, r.d))
    ELSE sliceElems([slice EXCEPT ![j] = r.val], sliceType, input, j + 1, reg, path,
                    w \o r.w, Max(d, r.d))

\* lines 162-166: after convertType of scalar element j (result c)
scalarElemConverted(slice, sliceType, input, j, reg, path, w, d, c) ==
    IF c.st = "panic" THEN Panic(slice, w, d)
    ELSE IF c.st = "err" THEN Fail("ConversionError", slice, w, d)
    ELSE sliceElems([slice EXCEPT ![j] = c.v], sliceType, input, j + 1, reg, path, w, d)

\* lines 142-168: the loop over the elements of a slice of structs or scalars;
\* elem.Kind() is Map only for an input slice whose element type is a map
sliceElems(slice, sliceType, input, j, reg, path, w, d) ==
    IF j > Len(input.v) THEN Done(slice, w, d)
    ELSE IF sliceType.kind = "struct"
    THEN IF input.et # "map" THEN Fail("InvalidNestedInput", slice, w, d)
         ELSE structElemFilled(slice, sliceType, input, j, reg, path, w, d,
                  Fill(Ref(TRUE, sliceType, slice[j]), input.v[j].v, reg, path \o <<j>>))
    ELSE scalarElemConverted(slice, sliceType, input, j, reg, path, w, d,
             convertType(input.v[j], sliceType))

\* the slice assigned to the field however the loop ended
assignSliceAlways(fv, path, r) ==
    Res(r.st, r.err, [isnil |-> FALSE, e |-> r.val], r.w \o <<Wr(path, "input")>>, r.d)

\* lines 140 and 169: field.Set(slice), reached only when every element succeeded
assignSlice(fv, path, r) ==
    IF r.st # "ok" THEN Res(r.st, r.err, fv, r.w, r.d)
    ELSE Done([isnil |-> FALSE, e |-> r.val], r.w \o <<Wr(path, "input")>>, r.d)

\* a slice one element longer than asked for
MakeSliceLonger(sliceType, n) == [j \in 1..(n + 1) |-> Zero(sliceType)]

\* line 110: reflect.MakeSlice
MakeSlice(sliceType, n) == [j \in 1..n |-> Zero(sliceType)]

\* lines 103-170
fillSliceField(fv, f, inputValue, reg, path) ==
    IF inputValue.k # "slice" THEN Fail("ExpectedSlice", fv, <<>>, 0)
    ELSE assignSlice(fv, path,
             IF f.type.elem.kind = "interface"
             THEN interfaceElems(MakeSlice(f.type.elem, Len(inputValue.v)), f.type.elem,
                                 inputValue, 1, reg, path, <<>>, 0)
             ELSE sliceElems(MakeSlice(f.type.elem, Len(inputValue.v)), f.type.elem,
                             inputValue, 1, reg, path, <<>>, 0))

\* line 187: Value.Convert of what MapIndex returns, a value whose type is
\* the element type of the input map whatever it holds: an element of type
\* any converts only to the empty interface, an element of another
\* interface type to that type and to the interfaces it implements
CanConvertStatic(inputValue, t) == TypeConvertibleTo(ElemType(inputValue), t)

\* lines 171-192: Convert panics on a key or value that is not convertible
fillMapField(fv, f, inputValue, path) ==
    IF inputValue.k # "map" THEN Fail("ExpectedMap", fv, <<>>, 0)
    ELSE IF \E i \in 1..Len(inputValue.v) :
                ~ConvertibleTo(VString(inputValue.v[i][1]), f.type.key)
    THEN Panic(fv, <<>>, 0)
    ELSE IF Len(inputValue.v) > 0 /\ ~CanConvertStatic(inputValue, f.type.elem)
    THEN Panic(fv, <<>>, 0)
    ELSE Done([isnil |-> FALSE,
               m |-> [i \in 1..Len(inputValue.v) |->
                        <<inputValue.v[i][1], Convert(inputValue.v[i][2], f.type.elem)>>]],
              <<Wr(path, "input")>>, 0)

\* lines 71-196: a field that is not a nested struct
fillOtherField(fv, f, ok, inputValue, reg, path) ==
    IF ~ok THEN defaulted(setDefaultValues(fv, f.type, f.default, path))
    ELSE CASE f.type.kind = "string" -> fillString(fv, inputValue, path)
           [] f.type.kind = "int" -> fillInt(fv, f, inputValue, path)
           [] f.type.kind = "bool" -> fillBool(fv, inputValue, path)
           [] f.type.kind = "float" -> fillFloat(fv, inputValue, path)
           [] f.type.kind = "slice" -> fillSliceField(fv, f, inputValue, reg, path)
           [] f.type.kind = "map" -> fillMapField(fv, f, inputValue, path)
           [] OTHER -> Fail("UnsupportedFieldKind", fv, <<>>, 0)

\* line 51: inputValue, ok := inputMap[strings.ToLower(fieldName)]
InputValue(f, inputMap) ==
    IF HasKey(inputMap, ToLower(f.name)) THEN Lookup(inputMap, ToLower(f.name)) ELSE VNil

\* the default applied to every field before its input is looked at
defaultsBefore(dv, r) == Res(r.st, r.err, r.val, dv.w \o r.w, r.d)
fillStructFieldDefaultsFirst(fv, f, inputMap, reg, path) ==
    IF f.type.kind = "struct" /\ ~f.anonymous
    THEN fillNestedStruct(fv, f, HasKey(inputMap, ToLower(f.name)),
                          InputValue(f, inputMap), reg, path)
    ELSE defaultsBefore(setDefaultValuesFlat(fv, f.type, f.default, path),
                        fillOtherField(fv, f, HasKey(inputMap, ToLower(f.name)),
                                       InputValue(f, inputMap), reg, path))

\* lines 48-197
fillStructField(fv, f, inputMap, reg, path) ==
    IF f.type.kind = "struct" /\ ~f.anonymous
    THEN fillNestedStruct(fv, f, HasKey(inputMap, ToLower(f.name)),
                          InputValue(f, inputMap), reg, path)
    ELSE fillOtherField(fv, f, HasKey(inputMap, ToLower(f.name)),
                        InputValue(f, inputMap), reg, path)

\* the result of field i (r) followed by that of the fields after it (rest)
fieldsThen(r, rest) ==
    Res(rest.st, rest.err, rest.val, r.w \o rest.w, Max(r.d, rest.d))

\* lines 35-37 and 40-42: an error (or panic) of field i ends the loop, and
\* what was written so far stays written
fieldFilled(t, sv, inputMap, reg, i, path, r) ==
    IF r.st # "ok" THEN Res(r.st, r.err, [sv EXCEPT ![i] = r.val], r.w, r.d)
    ELSE fieldsThen(r, fillFields(t, [sv EXCEPT ![i] = r.val], inputMap, reg, i + 1, path))

\* the loop with an embedded structure filled like a named one, from the
\* sub-mapping under its own name
fillFieldsByName(t, sv, inputMap, reg, i, path) ==
    IF i > Len(t.fields) THEN Done(sv, <<>>, 0)
    ELSE IF ~t.fields[i].exported THEN fillFields(t, sv, inputMap, reg, i + 1, path)
    ELSE fieldFilled(t, sv, inputMap, reg, i, path,
             IF t.fields[i].anonymous /\ t.fields[i].type.kind = "struct"
             THEN fillNestedStruct(sv[i], t.fields[i],
                                   HasKey(inputMap, ToLower(t.fields[i].name)),
                                   InputValue(t.fields[i], inputMap), reg, path \o <<i>>)
             ELSE fillStructField(sv[i], t.fields[i], inputMap, reg, path \o <<i>>))

\* lines 24-45: the loop over the fields
fillFields(t, sv, inputMap, reg, i, path) ==
    IF i > Len(t.fields) THEN Done(sv, <<>>, 0)
    ELSE IF ~t.fields[i].exported THEN fillFields(t, sv, inputMap, reg, i + 1, path)
    ELSE fieldFilled(t, sv, inputMap, reg, i, path,
             IF t.fields[i].anonymous /\ t.fields[i].type.kind = "struct"
             THEN Fill(Ref(TRUE, t.fields[i].type, sv[i]), inputMap, reg, path \o <<i>>)
             ELSE fillStructField(sv[i], t.fields[i], inputMap, reg, path \o <<i>>))

\* two more levels for one call
deeperTwice(r) == Res(r.st, r.err, r.val, r.w, r.d + 2)

\* one more level of nested Fill calls
deeper(r) == Res(r.st, r.err, r.val, r.w, r.d + 1)

\* Fill without the test that the target is a pointer
FillAnyStruct(structType, inputMap, reg, path) ==
    IF structType.t.kind # "struct"
    THEN Fail("NotAPointerToStruct", structType.v, <<>>, 1)
    ELSE deeper(fillFields(structType.t, structType.v, inputMap, reg, 1, path))

\* lines 11-46
Fill(structType, inputMap, reg, path) ==
    IF ~structType.ptr \/ structType.t.kind # "struct"
    THEN Fail("NotAPointerToStruct", structType.v, <<>>, 1)
    ELSE deeper(fillFields(structType.t, structType.v, inputMap, reg, 1, path))

(***************************************************************************)
(* StructFill, the earlier variant of Fill (src/structfill.go), with its   *)
(* own setDefaultValues.  It has no type registry, looks every structure   *)
(* field up under its own name and formats every input with %v.            *)
(***************************************************************************)
RECURSIVE StructFill(_, _, _)
RECURSIVE StructFill_fields(_, _, _, _, _)
RECURSIVE StructFill_sliceElems(_, _, _, _, _, _, _)

\* structfill.go lines 210-240: no descent into a nested structure
StructFill_setDefaultValues(fv, t, defaultVal, path) ==
    IF defaultVal = "" THEN NoWrite(fv)
    ELSE CASE t.kind = "string" -> DefaultWrite(defaultVal, path)
           [] t.kind = "int" -> defaultInt(fv, t, ParseInt(defaultVal, 64), path)
           [] t.kind = "bool" -> defaultParsed(fv, ParseBool(defaultVal), path)
           [] t.kind = "float" -> defaultParsed(fv, ParseFloat(defaultVal), path)
           [] OTHER -> NoWrite(fv)

\* structfill.go lines 30-47: a structure field, embedded or not; an absent
\* key and a nil value both fill it from an empty mapping
StructFill_nested(fv, f, ok, inputValue, path) ==
    IF ok /\ inputValue.k # "nil"
    THEN IF ~IsStringAnyMap(inputValue)
         THEN Fail("InvalidNestedInput", fv, <<>>, 0)
         ELSE StructFill(Ref(TRUE, f.type, fv), inputValue.v, path)
    ELSE StructFill(Ref(TRUE, f.type, fv), <<>>, path)

\* structfill.go lines 53-54: field.SetString(inputString)
StructFill_string(fv, inputValue, path) ==
    Done(FormatV(inputValue), <<Wr(path, "input")>>, 0)

\* structfill.go lines 55-63: ParseInt with bit size 64 whatever the field's
\* width, the validation, then SetInt
StructFill_int(fv, f, inputValue, path) ==
    parsedInt(fv, f, ParseInt(FormatV(inputValue), 64), path)

\* structfill.go lines 93-96: after the recursive call for element j
StructFill_structElemFilled(slice, sliceType, input, j, path, w, d, r) ==
    IF r.st # "ok" THEN Res(r.st, r.err, slice, w \o r.w, Max(d, r.d))
    ELSE StructFill_sliceElems([slice EXCEPT ![j] = r.val], sliceType, input, j + 1,
                               path, w \o r.w, Max(d, r.d))

\* structfill.go lines 105-109: after convertType of element j
StructFill_scalarElemConverted(slice, sliceType, input, j, path, w, d, c) ==
    IF c.st = "panic" THEN Panic(slice, w, d)
    ELSE IF c.st = "err" THEN Fail("ConversionError", slice, w, d)
    ELSE StructFill_sliceElems([slice EXCEPT ![j] = c.v], sliceType, input, j + 1,
                               path, w, d)

\* structfill.go lines 85-111
StructFill_sliceElems(slice, sliceType, input, j, path, w, d) ==
    IF j > Len(input.v) THEN Done(slice, w, d)
    ELSE IF sliceType.kind = "struct"
    THEN IF input.et # "map" THEN Fail("InvalidNestedInput", slice, w, d)
         ELSE StructFill_structElemFilled(slice, sliceType, input, j, path, w, d,
                  StructFill(Ref(TRUE, sliceType, slice[j]), input.v[j].v, path \o <<j>>))
    ELSE StructFill_scalarElemConverted(slice, sliceType, input, j, path, w, d,
             convertType(input.v[j], sliceType))

\* structfill.go lines 76-112
StructFill_slice(fv, f, inputValue, path) ==
    IF inputValue.k # "slice" THEN Fail("ExpectedSlice", fv, <<>>, 0)
    ELSE assignSlice(fv, path,
             StructFill_sliceElems(MakeSlice(f.type.elem, Len(inputValue.v)), f.type.elem,
                                   inputValue, 1, path, <<>>, 0))

\* structfill.go lines 24-141: one settable field
StructFill_field(fv, f, inputMap, path) ==
    IF f.type.kind = "struct"
    THEN StructFill_nested(fv, f, HasKey(inputMap, ToLower(f.name)),
                           InputValue(f, inputMap), path)
    ELSE IF ~HasKey(inputMap, ToLower(f.name))
    THEN defaulted(StructFill_setDefaultValues(fv, f.type, f.default, path))
    ELSE CASE f.type.kind = "string" ->
                  StructFill_string(fv, InputValue(f, inputMap), path)
           [] f.type.kind = "int" ->
                  StructFill_int(fv, f, InputValue(f, inputMap), path)
           [] f.type.kind = "bool" -> fillBool(fv, InputValue(f, inputMap), path)
           [] f.type.kind = "float" -> fillFloat(fv, InputValue(f, inputMap), path)
           [] f.type.kind = "slice" ->
                  StructFill_slice(fv, f, InputValue(f, inputMap), path)
           [] f.type.kind = "map" -> fillMapField(fv, f, InputValue(f, inputMap), path)
           [] OTHER -> Fail("UnsupportedFieldKind", fv, <<>>, 0)

\* an error (or panic) of field i ends the loop
StructFill_fieldFilled(t, sv, inputMap, i, path, r) ==
    IF r.st # "ok" THEN Res(r.st, r.err, [sv EXCEPT ![i] = r.val], r.w, r.d)
    ELSE fieldsThen(r, StructFill_fields(t, [sv EXCEPT ![i] = r.val], inputMap, i + 1, path))

\* structfill.go lines 18-142: the loop over the fields
StructFill_fields(t, sv, inputMap, i, path) ==
    IF i > Len(t.fields) THEN Done(sv, <<>>, 0)
    ELSE IF ~t.fields[i].exported THEN StructFill_fields(t, sv, inputMap, i + 1, path)
    ELSE StructFill_fieldFilled(t, sv, inputMap, i, path,
             StructFill_field(sv[i], t.fields[i], inputMap, path \o <<i>>))

\* structfill.go lines 11-144
StructFill(structType, inputMap, path) ==
    IF ~structType.ptr \/ structType.t.kind # "struct"
    THEN Fail("NotAPointerToStruct", structType.v, <<>>, 1)
    ELSE deeper(StructFill_fields(structType.t, structType.v, inputMap, 1, path))

(***************************************************************************)
(* FillStructFromMap, the first variant (src/main.go), with its own        *)
(* setDefaultValues: nested structures and scalar fields as in StructFill, *)
(* and no slice or map fields.                                             *)
(***************************************************************************)
RECURSIVE FillStructFromMap(_, _, _)
RECURSIVE FillStructFromMap_fields(_, _, _, _, _)

\* main.go lines 121-151
FillStructFromMap_setDefaultValues(fv, t, defaultVal, path) ==
    IF defaultVal = "" THEN NoWrite(fv)
    ELSE CASE t.kind = "string" -> DefaultWrite(defaultVal, path)
           [] t.kind = "int" -> defaultInt(fv, t, ParseInt(defaultVal, 64), path)
           [] t.kind = "bool" -> defaultParsed(fv, ParseBool(defaultVal), path)
           [] t.kind = "float" -> defaultParsed(fv, ParseFloat(defaultVal), path)
           [] OTHER -> NoWrite(fv)

\* main.go lines 30-47
FillStructFromMap_nested(fv, f, ok, inputValue, path) ==
    IF ok /\ inputValue.k # "nil"
    THEN IF ~IsStringAnyMap(inputValue)
         THEN Fail("InvalidNestedInput", fv, <<>>, 0)
         ELSE FillStructFromMap(Ref(TRUE, f.type, fv), inputValue.v, path)
    ELSE FillStructFromMap(Ref(TRUE, f.type, fv), <<>>, path)

\* main.go lines 24-82: one settable field; a slice or map field whose key
\* is present is an unsupported type (lines 76-77)
FillStructFromMap_field(fv, f, inputMap, path) ==
    IF f.type.kind = "struct"
    THEN FillStructFromMap_nested(fv, f, HasKey(inputMap, ToLower(f.name)),
                                  InputValue(f, inputMap), path)
    ELSE IF ~HasKey(inputMap, ToLower(f.name))
    THEN defaulted(FillStructFromMap_setDefaultValues(fv, f.type, f.default, path))
    ELSE CASE f.type.kind = "string" ->
                  Done(FormatV(InputValue(f, inputMap)), <<Wr(path, "input")>>, 0)
           [] f.type.kind = "int" ->
                  parsedInt(fv, f, ParseInt(FormatV(InputValue(f, inputMap)), 64), path)
           [] f.type.kind = "bool" -> fillBool(fv, InputValue(f, inputMap), path)
           [] f.type.kind = "float" -> fillFloat(fv, InputValue(f, inputMap), path)
           [] OTHER -> Fail("UnsupportedFieldKind", fv, <<>>, 0)

\* an error of field i ends the loop
FillStructFromMap_fieldFilled(t, sv, inputMap, i, path, r) ==
    IF r.st # "ok" THEN Res(r.st, r.err, [sv EXCEPT ![i] = r.val], r.w, r.d)
    ELSE fieldsThen(r, FillStructFromMap_fields(t, [sv EXCEPT ![i] = r.val], inputMap,
                                                i + 1, path))

\* main.go lines 18-83: the loop over the fields
FillStructFromMap_fields(t, sv, inputMap, i, path) ==
    IF i > Len(t.fields) THEN Done(sv, <<>>, 0)
    ELSE IF ~t.fields[i].exported
    THEN FillStructFromMap_fields(t, sv, inputMap, i + 1, path)
    ELSE FillStructFromMap_fieldFilled(t, sv, inputMap, i, path,
             FillStructFromMap_field(sv[i], t.fields[i], inputMap, path \o <<i>>))

\* main.go lines 11-85
FillStructFromMap(structType, inputMap, path) ==
    IF ~structType.ptr \/ structType.t.kind # "struct"
    THEN Fail("NotAPointerToStruct", structType.v, <<>>, 1)
    ELSE deeper(FillStructFromMap_fields(structType.t, structType.v, inputMap, 1, path))

(***************************************************************************)
(* The declared structures.  Employee, Address, A, B, Pet, Dog, Cat,       *)
(* Animal, House, Classroom, School and Simple are the package's test      *)
(* fixtures.  Dept (three levels of nesting, a narrow integer and an       *)
(* unexported field), Tagged (an embedded structure with default tags),    *)
(* Shelf (a slice of the empty interface) and Gauge (an integer field with *)
(* validate:"min=L,max=H" for chosen L and H) are caller declarations of   *)
(* the same kinds.                                                         *)
(***************************************************************************)
AddressT ==
    TStruct("Address",
        <<Field("Street", TString, "Main St", ""),
          Field("City", TString, "", ""),
          Field("Height", TFloat(64), "1.8", "min=1.5,max=2.0")>>)

EmployeeT ==
    TStruct("Employee",
        <<Field("Name", TString, "John Doe", ""),
          Field("Age", TInt(64), "30", "min=18,max=65"),
          Field("Address", AddressT, "", "")>>)

AT == TStruct("A", <<Field("Prop1", TString, "", "")>>)

BT == TStruct("B", <<Embedded("A", AT), Field("Prop2", TInt(64), "", "")>>)

PetT == TStruct("Pet", <<Field("Name", TString, "", "")>>)

DogT == TStruct("Dog", <<Embedded("Pet", PetT)>>)

CatT == TStruct("Cat", <<Embedded("Pet", PetT), Field("Wild", TBool, "", "")>>)

\* Speak is declared on *Dog and *Cat: no struct value type implements Animal
AnimalT == TIface("Animal", {"Speak"}, {})

HouseT == TStruct("House", <<Field("Pets", TSlice(AnimalT), "", "")>>)

ClassroomT ==
    TStruct("Classroom",
        <<Field("Building", TString, "", ""),
          Field("Number", TInt(64), "", "")>>)

SchoolT ==
    TStruct("School",
        <<Field("Students", TSlice(TString), "", ""),
          Field("Ages", TSlice(TInt(64)), "", ""),
          Field("Classrooms", TSlice(ClassroomT), "", "")>>)

SimpleT ==
    TStruct("Simple",
        <<Field("Items", TMap(TString, TString), "", ""),
          Field("Items2", TMap(TString, TInt(64)), "", "")>>)

\* structfill_test.go lines 141-143
CompanyT ==
    TStruct("Company", <<Field("Team", TMap(TString, TSlice(EmployeeT)), "", "")>>)

\* a target with maps of structs and of an interface, filled from maps whose
\* element type is another type: Room has the fields of Classroom, Walker is
\* an interface Pet implements (and Dog and Cat, to which the embedded Pet
\* promotes its method), ShowAnimal one with the method of Animal and one
\* more
RoomT ==
    TStruct("Room",
        <<Field("Building", TString, "", ""),
          Field("Number", TInt(64), "", "")>>)

WalkerT == TIface("Walker", {"Walk"}, {"Pet", "Dog", "Cat"})

ShowAnimalT == TIface("ShowAnimal", {"Speak", "Walk"}, {})

RosterT ==
    TStruct("Roster",
        <<Field("Rooms", TMap(TString, ClassroomT), "", ""),
          Field("Pets", TMap(TString, AnimalT), "", "")>>)

DeptT ==
    TStruct("Dept",
        <<Field("Head", EmployeeT, "", ""),
          Unexported("code", TString, "zz"),
          Field("Floor", TInt(8), "3", "")>>)

\* a structure that embeds one whose fields carry default tags
TaggedT ==
    TStruct("Tagged", <<Embedded("Address", AddressT), Field("Id", TInt(64), "", "")>>)

AnyT == TIface("any", {}, {})

ShelfT == TStruct("Shelf", <<Field("Things", TSlice(AnyT), "", "")>>)

\* largest bound L or H of a Gauge's validate tag; the smallest is -1
MaxRule == 2
RuleBounds == (0 - 1)..MaxRule

GaugeT(lo, hi) ==
    TStruct("Gauge",
        <<Field("Note", TString, "n", ""),
          Field("Level", TInt(8), "",
                "min=" \o FormatInt(lo) \o ",max=" \o FormatInt(hi)),
          Field("Tail", TString, "t", "")>>)

\* a root names the structure the caller declared: [name, lo, hi], where lo
\* and hi are the bounds of a Gauge and 0 otherwise
Root(name) == [name |-> name, lo |-> 0, hi |-> 0]
Roots ==
    {Root(n) : n \in {"Employee", "B", "House", "School", "Simple", "Dept",
                         "Tagged", "Shelf", "Company", "Roster"}}
    \cup {[name |-> "Gauge", lo |-> lo, hi |-> hi] : lo \in RuleBounds, hi \in RuleBounds}

TypeOf(r) ==
    CASE r.name = "Employee" -> EmployeeT
      [] r.name = "B" -> BT
      [] r.name = "House" -> HouseT
      [] r.name = "School" -> SchoolT
      [] r.name = "Simple" -> SimpleT
      [] r.name = "Dept" -> DeptT
      [] r.name = "Tagged" -> TaggedT
      [] r.name = "Shelf" -> ShelfT
      [] r.name = "Company" -> CompanyT
      [] r.name = "Roster" -> RosterT
      [] r.name = "Gauge" -> GaugeT(r.lo, r.hi)

(***************************************************************************)
(* The type registries a caller passes.  "pets" registers Dog and Cat as   *)
(* the test does (factories returning &Dog{} and &Cat{}), and two          *)
(* factories of the other shapes a factory may return: Fish returns a Pet  *)
(* by value, Num a pointer to an int.  Shelf returns &Shelf{}, a structure *)
(* that itself holds a polymorphic sequence.  "omitted" is a call without  *)
(* the registry argument, for which Fill makes an empty one (lines 12-15). *)
(***************************************************************************)
Registries == {"omitted", "pets"}

RegistryOf(name) ==
    IF name = "pets"
    THEN <<<<"Dog", [ptr |-> TRUE, t |-> DogT]>>,
           <<"Cat", [ptr |-> TRUE, t |-> CatT]>>,
           <<"Fish", [ptr |-> FALSE, t |-> PetT]>>,
           <<"Num", [ptr |-> TRUE, t |-> TInt(64)]>>,
           <<"Shelf", [ptr |-> TRUE, t |-> ShelfT]>>>>
    ELSE <<>>

(***************************************************************************)
(* The input mappings a caller supplies: for each key of the root          *)
(* structure, absent or one of a few values of every kind the code tells   *)
(* apart.                                                                  *)
(***************************************************************************)
\* every map with, for each i, either no entry for keys[i] or one of vals[i]
RECURSIVE MapsOver(_, _, _)
MapsOver(keys, vals, i) ==
    IF i > Len(keys) THEN <<<<>>>>
    ELSE LET rest == MapsOver(keys, vals, i + 1)
         IN  [n \in 1..(Len(rest) * (Len(vals[i]) + 1)) |->
                 LET vi == (n - 1) \div Len(rest)
                     m  == rest[((n - 1) % Len(rest)) + 1]
                 IN  IF vi = 0 THEN m ELSE <<<<keys[i], vals[i][vi]>>>> \o m]

\* every sequence of exactly n elements of elems
RECURSIVE SeqsOfLen(_, _)
SeqsOfLen(elems, n) ==
    IF n = 0 THEN <<<<>>>>
    ELSE LET prev == SeqsOfLen(elems, n - 1)
         IN  [k \in 1..(Len(elems) * Len(prev)) |->
                 <<elems[((k - 1) \div Len(prev)) + 1]>> \o prev[((k - 1) % Len(prev)) + 1]]

\* every sequence of at most n elements of elems
RECURSIVE SeqsUpTo(_, _)
SeqsUpTo(elems, n) ==
    IF n = 0 THEN SeqsOfLen(elems, 0)
    ELSE SeqsUpTo(elems, n - 1) \o SeqsOfLen(elems, n)

M(pairs) == VMap("any", pairs)

AddressInputs ==
    <<VNil, VInt(5), M(<<>>),
     M(<<<<"city", VString("S")>>, <<"height", VFloat(2, 0)>>>>),
     M(<<<<"street", VString("Elm")>>, <<"height", VString("tall")>>>>)>>

EmployeeInputs ==
    MapsOver(<<"name", "age", "address">>,
             <<<<VString("Al"), VInt(5)>>,
               <<VInt(17), VInt(29), VInt(66), VString("x"), VFloat(25, 1)>>,
               AddressInputs>>, 1)

BInputs ==
    MapsOver(<<"prop1", "prop2", "a">>,
             <<<<VString("v"), VInt(7)>>,
               <<VInt(2), VString("x")>>,
               <<M(<<<<"prop1", VString("w")>>>>)>>>>, 1)

\* the elements of a polymorphic input sequence
PetElems ==
    <<M(<<<<"type", VString("Dog")>>, <<"name", VString("Rex")>>>>),
     M(<<<<"type", VString("Cat")>>, <<"name", VString("Tom")>>, <<"wild", VBool(TRUE)>>>>),
     M(<<<<"type", VString("Cat")>>, <<"wild", VString("zz")>>>>),
     M(<<<<"name", VString("Polly")>>>>),
     M(<<<<"type", VString("Parrot")>>, <<"name", VString("Polly")>>>>),
     M(<<<<"type", VInt(5)>>>>),
     M(<<<<"type", VString("Fish")>>>>),
     M(<<<<"type", VString("Num")>>>>),
     VNil>>

\* []map[string]any when every element is a map, []any otherwise
PetSlice(elems) ==
    VSlice(IF \A i \in 1..Len(elems) : elems[i].k = "map" THEN "map" ELSE "any", elems)

PetsInputs ==
    LET qs == SeqsUpTo(PetElems, MaxElems)
    IN  [i \in 1..Len(qs) |-> PetSlice(qs[i])] \o <<VInt(5)>>

HouseInputs == MapsOver(<<"pets">>, <<PetsInputs>>, 1)

\* the elements supplied for a slice of the empty interface
InnerShelf == M(<<<<"type", VString("Shelf")>>, <<"things", VSlice("map", <<>>)>>>>)
ShelfElems ==
    <<PetElems[1], PetElems[4], PetElems[5], PetElems[7],
      M(<<<<"type", VString("Shelf")>>, <<"things", VSlice("map", <<InnerShelf>>)>>>>)>>

ShelfInputs ==
    LET qs == SeqsUpTo(ShelfElems, MaxElems)
    IN  MapsOver(<<"things">>, <<[i \in 1..Len(qs) |-> PetSlice(qs[i])]>>, 1)

SchoolInputs ==
    MapsOver(<<"students", "ages", "classrooms">>,
             <<<<VSlice("string", <<VString("a"), VString("b")>>),
                VSlice("any", <<VString("a"), VNil>>),
                VSlice("int", <<VInt(65)>>),
                VString("ab")>>,
               <<VSlice("int", <<VInt(25), VInt(30)>>),
                VSlice("string", <<VString("x")>>),
                VSlice("float", <<VFloat(25, 1)>>)>>,
               <<VSlice("map", <<M(<<<<"building", VString("A")>>, <<"number", VInt(101)>>>>)>>),
                VSlice("any", <<M(<<<<"building", VString("A")>>>>)>>),
                VSlice("any", <<M(<<<<"building", VString("A")>>>>), VInt(5)>>),
                VSlice("map", <<M(<<<<"number", VString("x")>>>>)>>)>>>>, 1)

SimpleInputs ==
    MapsOver(<<"items", "items2">>,
             <<<<VMap("string", <<<<"k", VString("v")>>>>),
                VMap("any", <<<<"k", VString("v")>>>>),
                VMap("any", <<>>),
                VMap("int", <<<<"k", VInt(65)>>>>),
                VInt(5)>>,
               <<VMap("int", <<<<"k", VInt(1)>>>>),
                VMap("string", <<<<"k", VString("1")>>>>)>>>>, 1)

\* a struct value Employee{Name: name, Age: age}
EmployeeValue(name, age) == VStruct(EmployeeT, <<name, age, Zero(AddressT)>>)

\* the map[string][]Employee of TestFill_NestedMapOfStructs, the same slices
\* in a map[string]any, a map[string][]string, and a value that is no map
CompanyInputs ==
    MapsOver(<<"team">>,
             <<<<VMapOf(TSlice(EmployeeT),
                       <<<<"dev", VSliceOf(EmployeeT, <<EmployeeValue("Alice", 25),
                                                       EmployeeValue("Bob", 30)>>)>>,
                         <<"qa", VSliceOf(EmployeeT, <<EmployeeValue("Charlie", 35)>>)>>>>),
                VMap("any",
                     <<<<"qa", VSliceOf(EmployeeT, <<EmployeeValue("Charlie", 35)>>)>>>>),
                VMapOf(TSlice(TString), <<<<"dev", VSlice("string", <<VString("a")>>)>>>>),
                VInt(5)>>>>, 1)

\* rooms: a map[string]Room and a map[string]Walker; pets: a map[string]Animal
\* and a map[string]ShowAnimal holding nil, and a map[string]Walker holding a
\* Pet and nil
RosterInputs ==
    MapsOver(<<"rooms", "pets">>,
             <<<<VMapOf(RoomT, <<<<"r", VStruct(RoomT, <<"A", 1>>)>>>>),
                VMapOf(WalkerT, <<<<"a", VStruct(PetT, <<"Bo">>)>>>>)>>,
               <<VMapOf(AnimalT, <<<<"a", VNil>>>>),
                VMapOf(ShowAnimalT, <<<<"a", VNil>>>>),
                VMapOf(WalkerT, <<<<"a", VStruct(PetT, <<"Bo">>)>>, <<"b", VNil>>>>)>>>>, 1)

DeptInputs ==
    MapsOver(<<"head", "code", "floor">>,
             <<<<VNil, M(<<>>), M(<<<<"name", VString("Al")>>>>),
                M(<<<<"address", VNil>>>>), M(<<<<"age", VInt(17)>>>>)>>,
               <<VString("c")>>,
               <<VInt(4), VInt(200), VFloat(1000000, 0)>>>>, 1)

TaggedInputs ==
    MapsOver(<<"street", "city", "height", "address", "id">>,
             <<<<VString("Elm"), VInt(3)>>,
               <<VString("S")>>,
               <<VFloat(17, 1), VString("tall")>>,
               <<M(<<<<"street", VString("Oak")>>>>)>>,
               <<VInt(9)>>>>, 1)

GaugeInputs ==
    MapsOver(<<"note", "level">>,
             <<<<VString("m")>>,
               [i \in 1..(MaxRule + 4) |-> VInt(i - 3)]
                   \o <<VInt(200), VString("x"), VFloat(15, 1)>>>>, 1)

Inputs(r) ==
    CASE r.name = "Employee" -> EmployeeInputs
      [] r.name = "B" -> BInputs
      [] r.name = "House" -> HouseInputs
      [] r.name = "School" -> SchoolInputs
      [] r.name = "Simple" -> SimpleInputs
      [] r.name = "Dept" -> DeptInputs
      [] r.name = "Tagged" -> TaggedInputs
      [] r.name = "Shelf" -> ShelfInputs
      [] r.name = "Company" -> CompanyInputs
      [] r.name = "Roster" -> RosterInputs
      [] r.name = "Gauge" -> GaugeInputs

(***************************************************************************)
(* The mapping that reproduces a structure's current values: each settable *)
(* field's lower-cased name mapped to the field's value, a nested          *)
(* structure as a sub-mapping, a slice of structures as a                  *)
(* []map[string]any, any other slice or map as itself.  With flat, the     *)
(* fields of an embedded structure appear under their own names in the     *)
(* enclosing mapping; without, the embedded structure is a sub-mapping     *)
(* under its own name like any other structure field.                      *)
(***************************************************************************)
\* a scalar of shape t as a dynamically typed value
ScalarValue(t, v) == [k |-> t.kind, v |-> v]

\* a value of any other shape t as the Go value of that type
RECURSIVE ValueOf(_, _)
ValueOf(t, v) ==
    CASE t.kind = "struct" -> VStruct(t, v)
      [] t.kind = "slice" ->
             VSliceOf(t.elem, [j \in 1..Len(v.e) |-> ValueOf(t.elem, v.e[j])])
      [] t.kind = "map" ->
             VMapOf(t.elem, [j \in 1..Len(v.m) |->
                                <<v.m[j][1], ValueOf(t.elem, v.m[j][2])>>])
      [] t.kind = "interface" ->
             IF v.dyn = "nil" THEN VNil ELSE ValueOf(v.t, v.v)
      [] OTHER -> ScalarValue(t, v)

RECURSIVE MappingOf(_, _, _)
RECURSIVE MappingFrom(_, _, _, _)

\* field i of the structure as the entries it contributes to the mapping
EntriesOf(f, v, flat) ==
    CASE f.type.kind = "struct" ->
             IF f.anonymous /\ flat THEN MappingOf(f.type, v, flat)
             ELSE <<<<ToLower(f.name), M(MappingOf(f.type, v, flat))>>>>
      [] f.type.kind = "slice" ->
             <<<<ToLower(f.name),
                 IF f.type.elem.kind = "struct"
                 THEN VSlice("map", [j \in 1..Len(v.e) |->
                                        M(MappingOf(f.type.elem, v.e[j], flat))])
                 ELSE IF f.type.elem.kind \in {"string", "int", "bool", "float"}
                 THEN VSlice(f.type.elem.kind,
                             [j \in 1..Len(v.e) |-> ScalarValue(f.type.elem, v.e[j])])
                 ELSE ValueOf(f.type, v)>>>>
      [] f.type.kind = "map" ->
             <<<<ToLower(f.name),
                 IF f.type.elem.kind \in {"string", "int", "bool", "float"}
                 THEN VMap(f.type.elem.kind,
                           [j \in 1..Len(v.m) |->
                               <<v.m[j][1], ScalarValue(f.type.elem, v.m[j][2])>>])
                 ELSE ValueOf(f.type, v)>>>>
      [] OTHER -> <<<<ToLower(f.name), ScalarValue(f.type, v)>>>>

MappingFrom(t, sv, i, flat) ==
    IF i > Len(t.fields) THEN <<>>
    ELSE (IF t.fields[i].exported THEN EntriesOf(t.fields[i], sv[i], flat) ELSE <<>>)
             \o MappingFrom(t, sv, i + 1, flat)

MappingOf(t, sv, flat) == MappingFrom(t, sv, 1, flat)

\* no settable field, at any level, holds the zero value of its shape
RECURSIVE Populated(_, _)
Populated(t, v) ==
    CASE t.kind = "struct" ->
             \A i \in 1..Len(t.fields) :
                 t.fields[i].exported => Populated(t.fields[i].type, v[i])
      [] t.kind = "slice" ->
             /\ ~v.isnil
             /\ v.e # <<>>
             /\ \A j \in 1..Len(v.e) : Populated(t.elem, v.e[j])
      [] t.kind = "map" -> ~v.isnil /\ v.m # <<>>
      [] t.kind = "float" -> v.num # 0
      [] OTHER -> v # Zero(t)

\* the structure has a slice of an interface type among its fields
HasPolymorphicField(t) ==
    \E i \in 1..Len(t.fields) :
        /\ t.fields[i].type.kind = "slice"
        /\ t.fields[i].type.elem.kind = "interface"

\* the shape has no embedded structure and no polymorphic sequence, at any
\* level: the targets both Fill and StructFill are written for
RECURSIVE NoEmbeddedNoPolymorphic(_)
NoEmbeddedNoPolymorphic(t) ==
    CASE t.kind = "struct" ->
             \A i \in 1..Len(t.fields) :
                 ~t.fields[i].anonymous /\ NoEmbeddedNoPolymorphic(t.fields[i].type)
      [] t.kind = "slice" -> t.elem.kind # "interface" /\ NoEmbeddedNoPolymorphic(t.elem)
      [] OTHER -> TRUE

\* the targets a caller starts from: the zero structure (var emp Employee) or
\* a structure literal with every field given, here one whose Age lies
\* outside the bounds of the field's validate tag
Literals(r) ==
    IF r.name = "Employee"
    THEN {<<"Bo", 70, <<"Elm", "S", [num |-> 17, scale |-> 1]>>>>}
    ELSE {}

(***************************************************************************)
(* The state: a caller declares a structure (root), allocates a target and *)
(* calls Fill (or one of the earlier variants, StructFill and              *)
(* FillStructFromMap) on it up to MaxCalls times.  While how # "none" a    *)
(* call has just returned: pre, input, registry and how record it (the     *)
(* target before it, its arguments, and whether the target was passed to   *)
(* Fill as a pointer to the structure, by value, as a pointer to a         *)
(* non-structure or as a pointer with the mapping of its own values, or to *)
(* one of the earlier variants) and out is how it ended.  The caller then  *)
(* takes the result (Return) before it calls again.                        *)
(***************************************************************************)
VARIABLES root, target, calls, pre, input, registry, how, out

vars == <<root, target, calls, pre, input, registry, how, out>>

NoOut == [st |-> "none", err |-> NoErr, w |-> <<>>, d |-> 0]
OutOf(r) == [st |-> r.st, err |-> r.err, w |-> r.w, d |-> r.d]

Init ==
    /\ root \in Roots
    /\ target \in {Zero(TypeOf(root))} \cup Literals(root)
    /\ calls = 0
    /\ pre = target
    /\ input = <<>>
    /\ registry = "omitted"
    /\ how = "none"
    /\ out = NoOut

\* one call Fill(structType, m, reg...) by the caller
Returned(r, m, reg, kind) ==
    /\ calls' = calls + 1
    /\ pre' = target
    /\ target' = IF kind \in {"ptr", "roundtrip", "structfill", "frommap"}
                  THEN r.val ELSE target
    /\ input' = m
    /\ registry' = reg
    /\ how' = kind
    /\ out' = OutOf(r)
    /\ UNCHANGED root

Call(structType, m, reg, kind) ==
    /\ how = "none"
    /\ calls < MaxCalls
    /\ Returned(Fill(structType, m, RegistryOf(reg), <<>>), m, reg, kind)

\* Fill(&target, m, registry), as a caller does for a target with a
\* polymorphic field
FillWithRegistry ==
    /\ HasPolymorphicField(TypeOf(root))
    /\ \E i \in 1..Len(Inputs(root)), reg \in Registries \ {"omitted"} :
        Call(Ref(TRUE, TypeOf(root), target), Inputs(root)[i], reg, "ptr")

\* Fill(&target, m)
FillNoRegistry ==
    \E i \in 1..Len(Inputs(root)) :
        Call(Ref(TRUE, TypeOf(root), target), Inputs(root)[i], "omitted", "ptr")

\* the mappings passed with a target that is not a pointer to a structure:
\* the empty one and one with every key
RejectedInputs == {1, Len(Inputs(root))}

\* Fill(target, m): the structure passed by value
FillByValue ==
    \E i \in RejectedInputs :
        Call(Ref(FALSE, TypeOf(root), target), Inputs(root)[i], "omitted", "value")

\* Fill(&n, m) for an int n
FillNonStruct ==
    \E i \in RejectedInputs :
        Call(Ref(TRUE, TInt(64), 0), Inputs(root)[i], "omitted", "nonstruct")

\* Fill(&target, m) with m reproducing the current values of a fully
\* populated target, whatever its fields
FillRoundTrip ==
    /\ Populated(TypeOf(root), target)
    /\ \E flat \in BOOLEAN :
           Call(Ref(TRUE, TypeOf(root), target),
                MappingOf(TypeOf(root), target, flat), "omitted", "roundtrip")

\* StructFill(&target, m), on a target of the shapes it is written for
CallStructFill ==
    /\ how = "none"
    /\ calls < MaxCalls
    /\ NoEmbeddedNoPolymorphic(TypeOf(root))
    /\ \E i \in 1..Len(Inputs(root)) :
           Returned(StructFill(Ref(TRUE, TypeOf(root), target), Inputs(root)[i], <<>>),
                    Inputs(root)[i], "omitted", "structfill")

\* FillStructFromMap(&target, m), on a target of the same shapes
CallFillStructFromMap ==
    /\ how = "none"
    /\ calls < MaxCalls
    /\ NoEmbeddedNoPolymorphic(TypeOf(root))
    /\ \E i \in 1..Len(Inputs(root)) :
           Returned(FillStructFromMap(Ref(TRUE, TypeOf(root), target), Inputs(root)[i],
                                      <<>>),
                    Inputs(root)[i], "omitted", "frommap")

\* the caller has taken the result of the last call
Return ==
    /\ how # "none"
    /\ how' = "none"
    /\ pre' = target
    /\ input' = <<>>
    /\ registry' = "omitted"
    /\ out' = NoOut
    /\ UNCHANGED <<root, target, calls>>

Next ==
    \/ FillWithRegistry
    \/ FillNoRegistry
    \/ FillByValue
    \/ FillNonStruct
    \/ FillRoundTrip
    \/ CallStructFill
    \/ CallFillStructFromMap
    \/ Return

Spec == Init /\ [][Next]_vars

(***************************************************************************)
(* What the caller observes of the call that has just returned.            *)
(***************************************************************************)
\* Fill(&target, input, registry...) has just returned
FillReturned == how = "ptr"

\* the registry the call was given
Registry == RegistryOf(registry)

\* the call was on a structure whose first field is a slice of an interface
\* type, with an input slice under the field's key
PolyKey == IF root.name = "House" THEN "pets" ELSE "things"
PolyCall ==
    /\ FillReturned
    /\ root.name \in {"House", "Shelf"}
    /\ HasKey(input, PolyKey)
    /\ Lookup(input, PolyKey).k = "slice"
PolyElems == Lookup(input, PolyKey).v
PolyElemType == TypeOf(root).fields[1].type.elem


\* element e is a mapping whose "type" is a string
Discriminated(e) == IsStringAnyMap(e) /\ HasTypeIdentifier(e.v)

\* element e is a mapping whose "type" is a key of the registry
Registered(e) == Discriminated(e) /\ HasKey(Registry, TypeIdentifier(e.v))

\* what filling a fresh instance of e's registered type from e's own mapping gives
OwnFill(e) ==
    Fill(NewInstance(Lookup(Registry, TypeIdentifier(e.v))), e.v, Registry, <<>>)

\* element e is registered and its own mapping fills its instance without error
Fillable(e) == Registered(e) /\ OwnFill(e).st = "ok"

\* the elements of s that carry a "type" string, in order
RECURSIVE WithDiscriminator(_)
WithDiscriminator(s) ==
    IF s = <<>> THEN <<>>
    ELSE (IF HasTypeIdentifier(Head(s).v) THEN <<Head(s)>> ELSE <<>>)
             \o WithDiscriminator(Tail(s))

\* the field holds one instance per element of elems, in order, each of the
\* registered type and filled from the element's own mapping
HoldsInstancesOf(field, elems) ==
    /\ ~field.isnil
    /\ Len(field.e) = Len(elems)
    /\ \A j \in 1..Len(elems) :
           /\ field.e[j].dyn = TypeIdentifier(elems[j].v)
           /\ field.e[j].v = OwnFill(elems[j]).val

\* C1: when every element of the input sequence of a polymorphic field is a
\* mapping whose "type" is a key of the registry (and the element's own
\* mapping fills its instance without error), Fill returns no error and the
\* field holds one filled instance per element, in input order.  The code
\* panics instead, for every interface type that struct values do not
\* implement (the package's Animal among them).
C1_PolymorphicSliceFilled ==
    (PolyCall /\ \A j \in 1..Len(PolyElems) : Fillable(PolyElems[j]))
        => /\ out.st = "ok"
           /\ HoldsInstancesOf(target[1], PolyElems)

\* C2: an element without a usable "type" is skipped: when every element is
\* a mapping that either lacks a usable "type" or is registered and fills
\* without error, and some element lacks one, Fill returns no error and the
\* field holds the instances of the other elements, in order.  The code
\* returns an error at the first element without a "type".
C2_MissingDiscriminatorSkipped ==
    (/\ PolyCall
     /\ \A j \in 1..Len(PolyElems) :
            /\ IsStringAnyMap(PolyElems[j])
            /\ (Discriminated(PolyElems[j]) => Fillable(PolyElems[j]))
     /\ \E j \in 1..Len(PolyElems) : ~Discriminated(PolyElems[j]))
        => /\ out.st = "ok"
           /\ HoldsInstancesOf(target[1], WithDiscriminator(PolyElems))

\* element e carries a "type" string that is not a key of the registry
Unknown(e) == Discriminated(e) /\ ~HasKey(Registry, TypeIdentifier(e.v))

\* element e is filled and stored without failure
Stored(e) ==
    /\ Fillable(e)
    /\ Assignable(Lookup(Registry, TypeIdentifier(e.v)).t, PolyElemType)

\* the call failed with UnknownTypeIdentifier and left the field as it was
FailedUnknownType ==
    /\ out.st = "err"
    /\ out.err.kind = "UnknownTypeIdentifier"
    /\ target[1] = pre[1]

\* C3 as stated: if any element carries a "type" string that is not a key of
\* the registry, Fill returns UnknownTypeIdentifier and the field is not
\* assigned.  This fails even among the calls that do not panic and whose
\* elements all carry a "type" string: an earlier element whose own mapping
\* does not fill its instance ends the call with that element's error.
C3_AnyUnknownTypeFails ==
    (/\ PolyCall
     /\ out.st # "panic"
     /\ \A j \in 1..Len(PolyElems) : Discriminated(PolyElems[j])
     /\ \E j \in 1..Len(PolyElems) : Unknown(PolyElems[j]))
        => FailedUnknownType

\* C3, amended: if an element carries a "type" string that is not a key of
\* the registry and every element before it is filled and stored without
\* failure, Fill returns UnknownTypeIdentifier and the field is not assigned;
\* with the registry omitted, every non-empty input sequence whose elements
\* all carry a "type" string fails this way.
C3_FirstUnknownTypeFails ==
    /\ (PolyCall /\ \E j \in 1..Len(PolyElems) :
                        /\ Unknown(PolyElems[j])
                        /\ \A i \in 1..(j - 1) : Stored(PolyElems[i]))
           => FailedUnknownType
    /\ (/\ PolyCall
        /\ registry = "omitted"
        /\ PolyElems # <<>>
        /\ \A j \in 1..Len(PolyElems) : Discriminated(PolyElems[j]))
           => FailedUnknownType

\* an unknown "type" after an element that was stored, on a target whose
\* field an earlier call had assigned
C3_Witness ==
    /\ PolyCall
    /\ Len(PolyElems) = 2
    /\ Stored(PolyElems[1])
    /\ Unknown(PolyElems[2])
    /\ ~pre[1].isnil
    /\ out.err.kind = "UnknownTypeIdentifier"

\* the call was on a Gauge, whose Level is an 8-bit integer field tagged
\* validate:"min=L,max=H" with L = root.lo and H = root.hi, with an integer
\* supplied under the field's key
GaugeCall ==
    /\ FillReturned
    /\ root.name = "Gauge"
    /\ HasKey(input, "level")
    /\ Lookup(input, "level").k = "int"
LevelInput == Lookup(input, "level").v

\* the call returned the error that names v and the min bound
FailedMin(v, bound) ==
    /\ out.st = "err"
    /\ out.err = BoundErr("min", v, bound)
    /\ BoundMessage(out.err)
           = "value " \o FormatInt(v) \o " is less than min " \o FormatInt(bound)

\* the call returned the error that names v and the max bound
FailedMax(v, bound) ==
    /\ out.st = "err"
    /\ out.err = BoundErr("max", v, bound)
    /\ BoundMessage(out.err)
           = "value " \o FormatInt(v) \o " is greater than max " \o FormatInt(bound)

\* C4 as stated: for an input integer v, if L <= v <= H Fill returns no
\* error and the field equals v; if v < L the error names v and min L; if
\* v > H the error names v and max H.  This fails for v outside the range of
\* the field's integer type, and for H < v < L, where both bounds are
\* violated and the error names min only.
C4_BoundsAsStated ==
    GaugeCall =>
        /\ (root.lo <= LevelInput /\ LevelInput <= root.hi)
               => (out.st = "ok" /\ target[2] = LevelInput)
        /\ (LevelInput < root.lo) => FailedMin(LevelInput, root.lo)
        /\ (LevelInput > root.hi) => FailedMax(LevelInput, root.hi)

\* C4, amended: for an input integer v within the range of the field's
\* integer type, if L <= v <= H Fill returns no error and the field equals
\* v; if v < L the error names v and min L; if v >= L and v > H the error
\* names v and max H.
C4_BoundsInRange ==
    (GaugeCall /\ IntMin(8) <= LevelInput /\ LevelInput <= IntMax(8)) =>
        /\ (root.lo <= LevelInput /\ LevelInput <= root.hi)
               => (out.st = "ok" /\ target[2] = LevelInput)
        /\ (LevelInput < root.lo) => FailedMin(LevelInput, root.lo)
        /\ (LevelInput >= root.lo /\ LevelInput > root.hi)
               => FailedMax(LevelInput, root.hi)

\* a value below min and above max, rejected for min
C4_Witness ==
    /\ GaugeCall
    /\ LevelInput < root.lo
    /\ LevelInput > root.hi
    /\ FailedMin(LevelInput, root.lo)

\* the call was on a zero-valued structure with an empty mapping
EmptyOnZero ==
    /\ FillReturned
    /\ input = <<>>
    /\ pre = Zero(TypeOf(root))

IsScalar(t) == t.kind \in {"string", "int", "bool", "float"}

\* the value a default literal denotes for a field of scalar type t
ParsedDefault(t, literal) ==
    CASE t.kind = "string" -> literal
      [] t.kind = "int" -> ParseInt(literal, 64).v
      [] t.kind = "bool" -> ParseBool(literal).v
      [] t.kind = "float" -> ParseFloat(literal).v

\* the zero structure of type t with every default-tagged scalar field, at
\* every nesting level, equal to its parsed default literal; with
\* settableOnly, unexported fields are left zero
RECURSIVE WithDefaults(_, _)
WithDefaults(t, settableOnly) ==
    [i \in 1..Len(t.fields) |->
        IF settableOnly /\ ~t.fields[i].exported THEN Zero(t.fields[i].type)
        ELSE IF IsScalar(t.fields[i].type) /\ t.fields[i].default # ""
        THEN ParsedDefault(t.fields[i].type, t.fields[i].default)
        ELSE IF t.fields[i].type.kind = "struct"
        THEN WithDefaults(t.fields[i].type, settableOnly)
        ELSE Zero(t.fields[i].type)]

\* C5 as stated: Fill with an empty mapping on a zero-valued structure
\* returns no error and leaves every scalar field that carries a default tag
\* equal to its parsed default literal, at every nesting level; fields
\* without a default tag keep their zero value.  An unexported field that
\* carries a default tag is not settable and keeps its zero value.
C5_EveryDefaultApplied ==
    EmptyOnZero => (out.st = "ok" /\ target = WithDefaults(TypeOf(root), FALSE))

\* C5, amended: Fill with an empty mapping on a zero-valued structure returns
\* no error and leaves every settable scalar field that carries a default
\* tag equal to its parsed default literal, at every nesting level; fields
\* without a default tag and fields that are not settable keep their zero
\* value.
C5_SettableDefaultsApplied ==
    EmptyOnZero => (out.st = "ok" /\ target = WithDefaults(TypeOf(root), TRUE))

\* defaults two structures below the root, next to an unexported field
C5_Witness ==
    /\ EmptyOnZero
    /\ root.name = "Dept"
    /\ target[1][3][1] = "Main St"
    /\ target[1][2] = 30
    /\ target[3] = 3

\* the call was on a structure with a nested, non-embedded structure field
\* (Employee.Address, Dept.Head) whose key is absent from the mapping or
\* present with a null value
NestedIndex == IF root.name = "Employee" THEN 3 ELSE 1
NestedField == TypeOf(root).fields[NestedIndex]
NestedKey == ToLower(NestedField.name)
NestedAbsentOrNull ==
    /\ FillReturned
    /\ root.name \in {"Employee", "Dept"}
    /\ (~HasKey(input, NestedKey) \/ Lookup(input, NestedKey).k = "nil")

\* the nested structure as Fill leaves it when given an empty sub-mapping
AsIfEmptySubMapping ==
    Fill(Ref(TRUE, NestedField.type, pre[NestedIndex]), <<>>, Registry, <<NestedIndex>>).val

\* C6: when the mapping has no entry for a nested structure field's key or
\* has a null one, Fill does not fail on that field and populates the nested
\* structure's defaults exactly as for an empty sub-mapping.  The code
\* returns an error for the null entry.
C6_AbsentOrNullNestedDefaults ==
    NestedAbsentOrNull =>
        /\ out.err.kind # "InvalidNestedInput"
        /\ out.st = "ok" => target[NestedIndex] = AsIfEmptySubMapping

\* the call was on a structure whose first field is an embedded structure
\* (B embeds A, Tagged embeds Address) and returned no error
EmbeddedFilled ==
    /\ FillReturned
    /\ root.name \in {"B", "Tagged"}
    /\ out.st = "ok"
EmbeddedType == TypeOf(root).fields[1].type

\* what scalar field f holds after a successful fill from mapping m: the
\* entry under lower_case(f), or else the default, or else what it held
FromMapping(f, before, m) ==
    IF HasKey(m, ToLower(f.name))
    THEN CASE f.type.kind = "string" ->
                  IF Lookup(m, ToLower(f.name)).k = "string"
                  THEN Lookup(m, ToLower(f.name)).v ELSE before
           [] f.type.kind = "int" ->
                  ParseInt(FormatV(Lookup(m, ToLower(f.name))), f.type.bits).v
           [] f.type.kind = "bool" -> ParseBool(FormatV(Lookup(m, ToLower(f.name)))).v
           [] f.type.kind = "float" -> ParseFloat(FormatV(Lookup(m, ToLower(f.name)))).v
    ELSE IF f.default # "" THEN ParsedDefault(f.type, f.default)
    ELSE before

\* C7: an embedded structure is filled from the same mapping as the
\* structure that embeds it: each of its fields f holds the enclosing
\* mapping's entry lower_case(f), or its default if that is absent, whatever
\* the mapping holds under the embedded structure's own name.
C7_EmbeddedFromSameMapping ==
    EmbeddedFilled =>
        \A i \in 1..Len(EmbeddedType.fields) :
            target[1][i] = FromMapping(EmbeddedType.fields[i], pre[1][i], input)

\* an embedded Address filled from the enclosing "street", with its Height
\* defaulted, while the mapping also has an "address" sub-mapping
C7_Witness ==
    /\ EmbeddedFilled
    /\ root.name = "Tagged"
    /\ HasKey(input, "address")
    /\ HasKey(input, "street")
    /\ ~HasKey(input, "height")
    /\ target[1][1] = "Elm"
    /\ target[1][3] = ParsedDefault(TFloat(64), "1.8")

\* strings.Contains
Contains(s, sub) ==
    \E i \in 0..(Len(s) - Len(sub)) : SubSeq(s, i + 1, i + Len(sub)) = sub

\* the call returned the error for a target of the wrong shape, having
\* written nothing
Rejected ==
    /\ out.st = "err"
    /\ out.err.kind = "NotAPointerToStruct"
    /\ Contains(Message(out.err), "provided type must be a pointer to a struct")
    /\ out.w = <<>>
    /\ target = pre

\* the first element of the polymorphic input names a factory whose result
\* is not a pointer to a structure
FactoryOfWrongShape ==
    /\ PolyCall
    /\ PolyElems # <<>>
    /\ Registered(PolyElems[1])
    /\ \/ ~Lookup(Registry, TypeIdentifier(PolyElems[1].v)).ptr
       \/ Lookup(Registry, TypeIdentifier(PolyElems[1].v)).t.kind # "struct"

\* C8: Fill on a target that is not a pointer to a structure (a structure
\* passed by value, a pointer to a non-structure or, on a recursive call, a
\* factory result of that shape) returns an error whose message contains
\* "provided type must be a pointer to a struct" and writes nothing.
C8_NotAPointerRejected ==
    /\ how \in {"value", "nonstruct"} => Rejected
    /\ FactoryOfWrongShape => Rejected

\* a factory that returns a structure by value, met on a target that an
\* earlier call had filled
C8_Witness ==
    /\ FactoryOfWrongShape
    /\ ~Lookup(Registry, TypeIdentifier(PolyElems[1].v)).ptr
    /\ ~pre[1].isnil
    /\ Rejected

\* C9: for every target, mapping and registry, Fill ends by returning either
\* success or an error value; no call aborts by panic.  The code panics on a
\* map-kind field whose input values are not convertible to the declared
\* value type, on a null element of a slice of scalars, and on storing a
\* filled instance into a slice of an interface type that the instance's
\* struct type does not implement.
C9_NoPanic == out.st # "panic"

\* the top-level fields of the structure the call was on
Fields == TypeOf(root).fields

\* scalar field f cannot take the entry under its key: the entry does not
\* convert to the field's type, or violates the field's validate tag
ScalarFails(f, m) ==
    /\ HasKey(m, ToLower(f.name))
    /\ CASE f.type.kind = "int" ->
                \/ ~ParseInt(FormatV(Lookup(m, ToLower(f.name))), f.type.bits).ok
                \/ validateIntField(f.validate,
                       ParseInt(FormatV(Lookup(m, ToLower(f.name))), f.type.bits).v).kind
                     # "nil"
         [] f.type.kind = "bool" -> ~ParseBool(FormatV(Lookup(m, ToLower(f.name)))).ok
         [] f.type.kind = "float" -> ~ParseFloat(FormatV(Lookup(m, ToLower(f.name)))).ok
         [] OTHER -> FALSE

\* what the pass does with field i alone, on the target as it was
FieldAlone(i) ==
    IF Fields[i].anonymous /\ Fields[i].type.kind = "struct"
    THEN Fill(Ref(TRUE, Fields[i].type, pre[i]), input, Registry, <<i>>)
    ELSE fillStructField(pre[i], Fields[i], input, Registry, <<i>>)

\* the pass cannot complete field i
FailsAt(i) ==
    /\ Fields[i].exported
    /\ IF IsScalar(Fields[i].type) THEN ScalarFails(Fields[i], input)
       ELSE FieldAlone(i).st # "ok"

\* the value the pass assigns to field i
Assigned(i) ==
    IF IsScalar(Fields[i].type) THEN FromMapping(Fields[i], pre[i], input)
    ELSE FieldAlone(i).val

\* the pass fails, and first at the scalar field of index k
FailsFirstAtScalar(k) ==
    /\ FillReturned
    /\ IsScalar(Fields[k].type)
    /\ FailsAt(k)
    /\ \A i \in 1..(k - 1) : ~FailsAt(i)

\* C10: when Fill fails on a scalar field at declaration index k (conversion
\* or validation error), on return every settable field before k holds the
\* value this pass assigned to it, and field k and every field after it hold
\* their values from before the call.
C10_FieldsAroundFailure ==
    \A k \in 1..Len(Fields) :
        FailsFirstAtScalar(k) =>
            /\ out.st = "err"
            /\ out.err.kind \in {"ConversionError", "ValidationBound"}
            /\ \A i \in 1..(k - 1) :
                   target[i] = IF Fields[i].exported THEN Assigned(i) ELSE pre[i]
            /\ \A i \in k..Len(Fields) : target[i] = pre[i]

\* a validation failure at the second of three fields, on a target that an
\* earlier call had filled: the first field is newly assigned, the second
\* and the third keep earlier values that this pass would have replaced
C10_Witness ==
    /\ root.name = "Employee"
    /\ FailsFirstAtScalar(2)
    /\ out.err.kind = "ValidationBound"
    /\ target[1] # pre[1]
    /\ pre[2] # 0
    /\ ~FailsAt(3)
    /\ Assigned(3) # pre[3]

\* every integer field of the structure, at every level, satisfies the
\* validate tag it carries
RECURSIVE IntsWithinBounds(_, _)
IntsWithinBounds(t, v) ==
    \A i \in 1..Len(t.fields) :
        CASE t.fields[i].type.kind = "struct" -> IntsWithinBounds(t.fields[i].type, v[i])
          [] t.fields[i].type.kind = "int" ->
                 validateIntField(t.fields[i].validate, v[i]).kind = "nil"
          [] OTHER -> TRUE

\* Fill(&target, m) has just returned, m being the mapping of the target's
\* own values
RoundTripReturned(flat) ==
    /\ how = "roundtrip"
    /\ input = MappingOf(TypeOf(root), pre, flat)

\* the structure has, at some level, a slice of an interface type
RECURSIVE HasPolymorphicSequence(_)
HasPolymorphicSequence(t) ==
    CASE t.kind = "struct" ->
             \E i \in 1..Len(t.fields) : HasPolymorphicSequence(t.fields[i].type)
      [] t.kind = "slice" -> t.elem.kind = "interface" \/ HasPolymorphicSequence(t.elem)
      [] t.kind = "map" -> HasPolymorphicSequence(t.elem)
      [] OTHER -> FALSE

\* C11 as stated: for a fully populated structure S and the mapping m of each
\* field's lower-cased name to the field's current value (nested structures
\* as sub-mappings, sequences as sequences), Fill(S, m) returns no error and
\* leaves every field as it was.  Three cases fail.  An integer that
\* violates its own validate tag makes the call fail.  An embedded structure
\* given as a sub-mapping under its own name is not read: its default-tagged
\* fields are reset to their defaults.  And the elements a polymorphic
\* sequence holds are structures, not mappings with a type identifier: the
\* call returns the error of line 116.
C11_RoundTripAsStated ==
    RoundTripReturned(FALSE) => (out.st = "ok" /\ target = pre)

\* the third case of C11 as stated: a Shelf whose things hold a Dog, passed
\* the mapping of its own values, is rejected at the first element
PolymorphicRoundTripRejected ==
    /\ \E flat \in BOOLEAN : RoundTripReturned(flat)
    /\ HasPolymorphicSequence(TypeOf(root))
    /\ IntsWithinBounds(TypeOf(root), pre)
    /\ out.st = "err"
    /\ out.err.kind = "ExpectedMapElement"

\* C11, amended: for a fully populated structure S that has no sequence of
\* an interface type and whose integer fields satisfy their validate tags,
\* and the mapping m of each field's lower-cased name to the field's current
\* value, with the fields of an embedded structure under their own names in
\* the enclosing mapping, Fill(S, m) returns no error and leaves every field
\* as it was.
C11_RoundTripWithinBounds ==
    (/\ RoundTripReturned(TRUE)
     /\ ~HasPolymorphicSequence(TypeOf(root))
     /\ IntsWithinBounds(TypeOf(root), pre))
        => (out.st = "ok" /\ target = pre)

\* a round trip of an embedded structure whose fields differ from their
\* defaults, one of them a float with a fraction
C11_Witness ==
    /\ RoundTripReturned(TRUE)
    /\ root.name = "Tagged"
    /\ pre[1][1] = "Elm"
    /\ pre[1][3] = [num |-> 17, scale |-> 1]
    /\ out.st = "ok"
    /\ target = pre

\* C12: for every matched input value of scalar kind, a successful Fill
\* leaves a string field equal to the canonical textual form of the value
\* (the integer 5 gives "5").  The code assigns a string field only from an
\* input that is itself a string, and silently leaves it as it was otherwise.
C12_StringFieldCoerced ==
    (FillReturned /\ out.st = "ok") =>
        \A i \in 1..Len(Fields) :
            (/\ Fields[i].exported
             /\ Fields[i].type.kind = "string"
             /\ HasKey(input, ToLower(Fields[i].name))
             /\ Lookup(input, ToLower(Fields[i].name)).k
                    \in {"string", "int", "bool", "float"})
                => target[i] = FormatV(Lookup(input, ToLower(Fields[i].name)))

\* the call was on a School, whose fields are a slice of strings, a slice of
\* integers and a slice of structures, with an input sequence under the key
\* of field i
SliceInput(i) == Lookup(input, ToLower(Fields[i].name))
SliceCall(i) ==
    /\ FillReturned
    /\ root.name = "School"
    /\ HasKey(input, ToLower(Fields[i].name))
    /\ SliceInput(i).k = "slice"

\* what element j of field i is derived from: the input element converted to
\* the element kind, or a fresh structure filled from the element's mapping
DerivedElem(i, j) ==
    IF Fields[i].type.elem.kind = "struct"
    THEN Fill(Ref(TRUE, Fields[i].type.elem, Zero(Fields[i].type.elem)),
              SliceInput(i).v[j].v, Registry, <<>>).val
    ELSE Convert(SliceInput(i).v[j], Fields[i].type.elem)

\* C13: for a slice-of-scalar or slice-of-structure field with a matched
\* input sequence of length n, on success the field holds a new sequence of
\* length n whose element j is derived from input element j; and when the
\* elements are structures and some input element is not a mapping, Fill
\* (having reached the field) fails with the invalid-nested-input error.
C13_SliceFromSequence ==
    \A i \in 1..Len(Fields) :
        SliceCall(i) =>
            /\ out.st = "ok" =>
                   /\ ~target[i].isnil
                   /\ Len(target[i].e) = Len(SliceInput(i).v)
                   /\ \A j \in 1..Len(SliceInput(i).v) :
                          target[i].e[j] = DerivedElem(i, j)
            /\ (/\ Fields[i].type.elem.kind = "struct"
                /\ \E j \in 1..Len(SliceInput(i).v) : SliceInput(i).v[j].k # "map"
                /\ \A h \in 1..(i - 1) : ~FailsAt(h))
                   => (out.st = "err" /\ out.err.kind = "InvalidNestedInput")

\* all three slices replaced on a School that an earlier call had filled,
\* the integers converted from floats
C13_Witness ==
    /\ \A i \in 1..3 : SliceCall(i)
    /\ out.st = "ok"
    /\ SliceInput(2).et = "float"
    /\ target[2].e = <<2>>
    /\ Len(target[3].e) = 1
    /\ ~pre[1].isnil
    /\ target[1] # pre[1]

\* The mapping a field is resolved against, followed along the field's path
\* from the root: an embedded structure's fields are resolved against the
\* mapping of the enclosing structure, a nested structure's against the
\* sub-mapping under its key (no mapping when the key is absent), and the
\* fields of element j of a sequence against the j-th mapping of the input
\* sequence, the element's shape being the declared one or, for a
\* polymorphic sequence, the one registered under the element's type
\* identifier.
SubMapping(m, key) ==
    IF HasKey(m, key) /\ IsStringAnyMap(Lookup(m, key)) THEN Lookup(m, key).v ELSE <<>>
ElemMapping(m, key, j) == Lookup(m, key).v[j].v
ElemShape(f, e, reg) ==
    IF f.type.elem.kind = "interface" THEN Lookup(reg, TypeIdentifier(e)).t
    ELSE f.type.elem

RECURSIVE KeyPresent(_, _, _, _)
KeyPresent(t, m, reg, path) ==
    IF Len(path) = 1 THEN HasKey(m, ToLower(t.fields[path[1]].name))
    ELSE IF t.fields[path[1]].type.kind = "struct"
    THEN IF t.fields[path[1]].anonymous
         THEN KeyPresent(t.fields[path[1]].type, m, reg, Tail(path))
         ELSE KeyPresent(t.fields[path[1]].type,
                         SubMapping(m, ToLower(t.fields[path[1]].name)), reg, Tail(path))
    ELSE KeyPresent(ElemShape(t.fields[path[1]],
                              ElemMapping(m, ToLower(t.fields[path[1]].name), path[2]), reg),
                    ElemMapping(m, ToLower(t.fields[path[1]].name), path[2]),
                    reg, Tail(Tail(path)))

\* C14: in every fill pass, successful or failed, no field reachable from
\* the root is written twice, and each write is the default application
\* exactly when the field's key is absent from the mapping the field is
\* resolved against and the input-driven assignment exactly when it is
\* present.
C14_WrittenOnceByKey ==
    (out.st # "none" /\ how \notin {"structfill", "frommap"}) =>
        /\ \A a, b \in 1..Len(out.w) : a # b => out.w[a].path # out.w[b].path
        /\ \A a \in 1..Len(out.w) :
               /\ out.w[a].by \in {"default", "input"}
               /\ out.w[a].by = "input"
                      <=> KeyPresent(TypeOf(root), input, Registry, out.w[a].path)

\* a failed pass that applied a default to one field and assigned another,
\* inside a nested structure, from the input
C14_Witness ==
    /\ out.st = "err"
    /\ \E a, b \in 1..Len(out.w) :
           /\ out.w[a].by = "default"
           /\ out.w[b].by = "input"
           /\ Len(out.w[b].path) >= 2

\* the declared nesting depth of a type: a structure is one level deeper
\* than the deepest structure among its fields, embedded structures and
\* the elements of its sequences included; an interface declares none
ShapeOf(ft) == IF ft.kind = "slice" THEN ft.elem ELSE ft

RECURSIVE DeclaredDepth(_)
RECURSIVE FieldsDepth(_, _)
DeclaredDepth(t) == IF t.kind # "struct" THEN 0 ELSE 1 + FieldsDepth(t, 1)
FieldsDepth(t, i) ==
    IF i > Len(t.fields) THEN 0
    ELSE Max(DeclaredDepth(ShapeOf(t.fields[i].type)), FieldsDepth(t, i + 1))

\* the largest declared nesting depth among the registered types
RECURSIVE RegisteredDepth(_, _)
RegisteredDepth(reg, i) ==
    IF i > Len(reg) THEN 0
    ELSE Max(DeclaredDepth(reg[i][2].t), RegisteredDepth(reg, i + 1))

\* the number of levels of non-empty sequences nested in an input value
RECURSIVE InputNesting(_)
RECURSIVE NestingOfEntries(_, _)
RECURSIVE NestingOfElems(_, _)
InputNesting(x) ==
    CASE x.k = "map" -> NestingOfEntries(x.v, 1)
      [] x.k = "slice" -> IF x.v = <<>> THEN 0 ELSE 1 + NestingOfElems(x.v, 1)
      [] OTHER -> 0
NestingOfEntries(m, i) ==
    IF i > Len(m) THEN 0 ELSE Max(InputNesting(m[i][2]), NestingOfEntries(m, i + 1))
NestingOfElems(e, j) ==
    IF j > Len(e) THEN 0 ELSE Max(InputNesting(e[j]), NestingOfElems(e, j + 1))

\* a call of Fill on a structure has returned (or panicked)
StructCallEnded == out.st # "none" /\ how \notin {"nonstruct", "structfill", "frommap"}

\* C15 as stated: every Fill call ends, and the depth of nested Fill calls
\* never exceeds the declared nesting depth of the root structure's type,
\* polymorphic elements instantiated through the registry included.
C15_DepthWithinDeclared ==
    StructCallEnded => out.d <= DeclaredDepth(TypeOf(root))

\* C15: every Fill call ends, and the depth of nested Fill calls is at most
\* the declared nesting depth of the root structure's type plus, for each
\* level of sequence nesting in the input, the largest declared nesting
\* depth among the registered types; without a registry that is the
\* declared nesting depth of the root structure's type.
C15_DepthWithinDeclaredAndInput ==
    StructCallEnded =>
        /\ out.d <= DeclaredDepth(TypeOf(root))
                        + NestingOfEntries(input, 1) * RegisteredDepth(Registry, 1)
        /\ registry = "omitted" => out.d <= DeclaredDepth(TypeOf(root))

\* a Shelf filled with a registered Shelf that holds a registered Shelf:
\* three nested calls for a declared depth of one
C15_Witness ==
    /\ StructCallEnded
    /\ root.name = "Shelf"
    /\ out.st = "ok"
    /\ out.d = 3
    /\ DeclaredDepth(TypeOf(root)) = 1

\* what StructFill does with the target and the input of the call
StructFillOutcome == StructFill(Ref(TRUE, TypeOf(root), pre), input, <<>>)

\* C16: on a target with no embedded and no polymorphic fields, Fill without
\* a registry and StructFill, run on equal targets with the same input,
\* both succeed or both fail, and on success leave equal field values.
C16_FillAgreesWithStructFill ==
    (FillReturned /\ registry = "omitted" /\ NoEmbeddedNoPolymorphic(TypeOf(root))) =>
        /\ out.st = "ok" <=> StructFillOutcome.st = "ok"
        /\ out.st = "ok" => target = StructFillOutcome.val
====
